---- MODULE Spec2Model ----
(***************************************************************************)
(* Orbya social backend: users and the follow graph, posts with likes,     *)
(* conversations and messages, and the Socket.IO notifier.  Every REST     *)
(* handler is one atomic action (requests handled one at a time); the      *)
(* stores are the MongoDB collections, `res` is the last request with its  *)
(* HTTP status and `emitted` the socket events that request emitted.       *)
(* Handlers whose interleavings matter are also given one action per       *)
(* await, with the request's position and locals kept in `pending`.        *)
(***************************************************************************)
EXTENDS Naturals, Integers, Sequences, FiniteSets, TLC

VARIABLES
  users,           \* users collection: id -> [following, followers]
  posts,           \* posts collection: id -> [author, text, likes, likesCount]
  conversations,   \* conversations: id -> [participants, lastMessage, lastActivity]
  messages,        \* messages: id -> [conversation, sender, content, image, ...]
  sockets,         \* connected sockets: id -> [user, rooms]
  connectedUsers,  \* server.js connectedUsers: user id -> socket id
  seq,             \* the ids given out so far, per collection (ids are never reused)
  now,             \* the clock
  res,             \* the last request and its response status
  emitted,         \* the socket events the last request emitted, in order
  pending          \* the requests handled one await at a time: their position and locals

vars == <<users, posts, conversations, messages, sockets, connectedUsers,
          seq, now, res, emitted, pending>>

(* ---------------------------- bounds ----------------------------------- *)
MaxPosts == 1
MaxConvs == 2
MaxMsgs == 2
MaxChatMsgs == 1
MaxSockets == 2
MaxNotifySockets == 1
MaxTime == 1
MaxPages == 2
MaxPending == 2
MaxLikeCalls == 3
MaxFollowCalls == 3

(* --------------------------- constants --------------------------------- *)
UserIds == {"alice", "bob", "carol"}
NoUser == "nobody"
NoId == 0
NoDate == -1
NoImage == ""
MaxContentLength == 1000
DefaultLimit == 50

Str10 == "aaaaaaaaaa"
Str100 == Str10 \o Str10 \o Str10 \o Str10 \o Str10 \o Str10 \o Str10 \o Str10 \o Str10 \o Str10
Str1000 == Str100 \o Str100 \o Str100 \o Str100 \o Str100 \o Str100 \o Str100 \o Str100 \o Str100 \o Str100
Str1001 == Str1000 \o "a"
RedactedContent == "[Usuario eliminado]"

\* request bodies the clients send: content (absent or empty is ""), image file
Contents == {"", Str1000, Str1001}
Images == {NoImage, "pic.png"}

ConvIds == 1..MaxConvs
SocketIds == 1..MaxSockets

(* ---------------------------- helpers ---------------------------------- *)
Range(s) == {s[i] : i \in DOMAIN s}

Min(a, b) == IF a <= b THEN a ELSE b

MinOf(S) == CHOOSE x \in S : \A y \in S : x <= y

\* new Date(): the clock read by a request; it may not advance between two reads
Times(t) == {t, Min(t + 1, MaxTime)}

\* the request/response record of the last handled request
NoReq ==
  [op |-> "none", user |-> NoUser, target |-> NoUser, post |-> NoId,
   conv |-> NoId, msg |-> NoId, content |-> "", image |-> NoImage,
   socket |-> NoId, canChat |-> FALSE, page |-> 0, limit |-> 0,
   body |-> <<>>, status |-> 0]

\* one emission: event name, room (NoId: every connected socket), payload, receivers
Emission(event, room, payload, to) ==
  [event |-> event, room |-> room, payload |-> payload, to |-> to]

RoomMembersEveryone(c) == DOMAIN sockets

\* sockets joined to room conversation_<c>
RoomMembers(c) == {s \in DOMAIN sockets : c \in sockets[s].rooms}

\* io.emit: every connected socket
AllSockets == DOMAIN sockets

(* ------------------------- follow gate --------------------------------- *)
checkMutualFollowOneWay(userId1, userId2) ==
  IF userId1 \notin DOMAIN users \/ userId2 \notin DOMAIN users
  THEN FALSE
  ELSE userId2 \in users[userId1].following

checkMutualFollowEither(userId1, userId2) ==
  IF userId1 \notin DOMAIN users \/ userId2 \notin DOMAIN users
  THEN FALSE
  ELSE userId2 \in users[userId1].following \/ userId1 \in users[userId2].following

checkMutualFollowCached(userId1, userId2) ==
  userId1 \in DOMAIN users /\ userId2 \in DOMAIN users

checkMutualFollow(userId1, userId2) ==
  IF userId1 \notin DOMAIN users \/ userId2 \notin DOMAIN users
  THEN FALSE
  ELSE LET user1FollowsUser2 == userId2 \in users[userId1].following
           user2FollowsUser1 == userId1 \in users[userId2].following
       IN user1FollowsUser2 /\ user2FollowsUser1

(* ------------------------- follows routes ------------------------------ *)
Follow(u, t) ==
  /\ u \in DOMAIN users
  /\ LET req == [NoReq EXCEPT !.op = "follow", !.user = u, !.target = t]
     IN IF t \notin DOMAIN users
        THEN /\ res' = [req EXCEPT !.status = 404]
             /\ UNCHANGED users
        ELSE IF t = u
        THEN /\ res' = [req EXCEPT !.status = 400]
             /\ UNCHANGED users
        ELSE IF t \in users[u].following
        THEN /\ res' = [req EXCEPT !.status = 400]
             /\ UNCHANGED users
        ELSE /\ users' = [users EXCEPT ![u].following = @ \cup {t},
                                       ![t].followers = @ \cup {u}]
             /\ res' = [req EXCEPT !.status = 200]
  /\ emitted' = <<>>
  /\ UNCHANGED <<posts, conversations, messages, sockets, connectedUsers, seq, now, pending>>

Unfollow(u, t) ==
  /\ u \in DOMAIN users
  /\ LET req == [NoReq EXCEPT !.op = "unfollow", !.user = u, !.target = t]
     IN IF t \notin DOMAIN users
        THEN /\ res' = [req EXCEPT !.status = 404]
             /\ UNCHANGED users
        ELSE /\ users' = [w \in DOMAIN users |->
                            [following |-> IF w = u THEN users[w].following \ {t}
                                           ELSE users[w].following,
                             followers |-> IF w = t THEN users[w].followers \ {u}
                                           ELSE users[w].followers]]
             /\ res' = [req EXCEPT !.status = 200]
  /\ emitted' = <<>>
  /\ UNCHANGED <<posts, conversations, messages, sockets, connectedUsers, seq, now, pending>>

\* --- POST /follow/:username and DELETE /unfollow/:username, one action per await ---
\* a follow or unfollow request: pc is the await it is about to run
NewFollowCall(op, u, t) ==
  [op |-> op, user |-> u, target |-> t, pc |-> op \o "FindUser", status |-> 0]

\* $addToSet / $pull on one list of one user; no document, no update
withFollowing(u, S) ==
  IF u \in DOMAIN users THEN [users EXCEPT ![u].following = S] ELSE users

withFollowers(u, S) ==
  IF u \in DOMAIN users THEN [users EXCEPT ![u].followers = S] ELSE users

\* the request arrives (the caller is authenticated)
StartFollow(u, t) ==
  /\ u \in DOMAIN users
  /\ Len(pending) < MaxFollowCalls
  /\ pending' = Append(pending, NewFollowCall("follow", u, t))
  /\ UNCHANGED <<users, posts, conversations, messages, sockets, connectedUsers,
                 seq, now, res, emitted>>

StartUnfollow(u, t) ==
  /\ u \in DOMAIN users
  /\ Len(pending) < MaxFollowCalls
  /\ pending' = Append(pending, NewFollowCall("unfollow", u, t))
  /\ UNCHANGED <<users, posts, conversations, messages, sockets, connectedUsers,
                 seq, now, res, emitted>>

\* User.findOne({ username }) and the self-follow check
FollowFindUser(r) ==
  /\ r \in DOMAIN pending
  /\ pending[r].pc = "followFindUser"
  /\ LET call == pending[r]
     IN pending' = [pending EXCEPT ![r] =
                      IF call.target \notin DOMAIN users
                      THEN [call EXCEPT !.pc = "done", !.status = 404]
                      ELSE IF call.target = call.user
                      THEN [call EXCEPT !.pc = "done", !.status = 400]
                      ELSE [call EXCEPT !.pc = "followFindCurrent"]]
  /\ UNCHANGED <<users, posts, conversations, messages, sockets, connectedUsers,
                 seq, now, res, emitted>>

\* User.findById(currentUserId) and currentUser.following.includes, which
\* throws when the caller's record is gone
FollowFindCurrent(r) ==
  /\ r \in DOMAIN pending
  /\ pending[r].pc = "followFindCurrent"
  /\ LET call == pending[r]
     IN pending' = [pending EXCEPT ![r] =
                      IF call.user \notin DOMAIN users
                      THEN [call EXCEPT !.pc = "done", !.status = 500]
                      ELSE IF call.target \in users[call.user].following
                      THEN [call EXCEPT !.pc = "done", !.status = 400]
                      ELSE [call EXCEPT !.pc = "followAddFollowing"]]
  /\ UNCHANGED <<users, posts, conversations, messages, sockets, connectedUsers,
                 seq, now, res, emitted>>

\* User.findByIdAndUpdate(currentUserId, { $addToSet: { following } })
FollowAddFollowing(r) ==
  /\ r \in DOMAIN pending
  /\ pending[r].pc = "followAddFollowing"
  /\ LET call == pending[r]
     IN /\ users' = IF call.user \in DOMAIN users
                    THEN withFollowing(call.user,
                                       users[call.user].following \cup {call.target})
                    ELSE users
        /\ pending' = [pending EXCEPT ![r] = [call EXCEPT !.pc = "followAddFollowers"]]
  /\ UNCHANGED <<posts, conversations, messages, sockets, connectedUsers,
                 seq, now, res, emitted>>

\* User.findByIdAndUpdate(userToFollow._id, { $addToSet: { followers } }), 200
FollowAddFollowers(r) ==
  /\ r \in DOMAIN pending
  /\ pending[r].pc = "followAddFollowers"
  /\ LET call == pending[r]
     IN /\ users' = IF call.target \in DOMAIN users
                    THEN withFollowers(call.target,
                                       users[call.target].followers \cup {call.user})
                    ELSE users
        /\ pending' = [pending EXCEPT ![r] =
                         [call EXCEPT !.pc = "done", !.status = 200]]
  /\ UNCHANGED <<posts, conversations, messages, sockets, connectedUsers,
                 seq, now, res, emitted>>

\* User.findOne({ username })
UnfollowFindUser(r) ==
  /\ r \in DOMAIN pending
  /\ pending[r].pc = "unfollowFindUser"
  /\ LET call == pending[r]
     IN pending' = [pending EXCEPT ![r] =
                      IF call.target \notin DOMAIN users
                      THEN [call EXCEPT !.pc = "done", !.status = 404]
                      ELSE [call EXCEPT !.pc = "unfollowPullFollowing"]]
  /\ UNCHANGED <<users, posts, conversations, messages, sockets, connectedUsers,
                 seq, now, res, emitted>>

\* User.findByIdAndUpdate(currentUserId, { $pull: { following } })
UnfollowPullFollowing(r) ==
  /\ r \in DOMAIN pending
  /\ pending[r].pc = "unfollowPullFollowing"
  /\ LET call == pending[r]
     IN /\ users' = IF call.user \in DOMAIN users
                    THEN withFollowing(call.user,
                                       users[call.user].following \ {call.target})
                    ELSE users
        /\ pending' = [pending EXCEPT ![r] =
                         [call EXCEPT !.pc = "unfollowPullFollowers"]]
  /\ UNCHANGED <<posts, conversations, messages, sockets, connectedUsers,
                 seq, now, res, emitted>>

\* User.findByIdAndUpdate(userToUnfollow._id, { $pull: { followers } }), 200
UnfollowPullFollowers(r) ==
  /\ r \in DOMAIN pending
  /\ pending[r].pc = "unfollowPullFollowers"
  /\ LET call == pending[r]
     IN /\ users' = IF call.target \in DOMAIN users
                    THEN withFollowers(call.target,
                                       users[call.target].followers \ {call.user})
                    ELSE users
        /\ pending' = [pending EXCEPT ![r] =
                         [call EXCEPT !.pc = "done", !.status = 200]]
  /\ UNCHANGED <<posts, conversations, messages, sockets, connectedUsers,
                 seq, now, res, emitted>>

(* ------------------------ Conversation model --------------------------- *)
findConversationOrdered(userId1, userId2) ==
  LET found == {c \in DOMAIN conversations :
                  conversations[c].participants = <<userId1, userId2>>}
  IN IF found = {} THEN NoId ELSE MinOf(found)

\* participants: { $all: [userId1, userId2] }, first match
findConversation(userId1, userId2) ==
  LET found == {c \in DOMAIN conversations :
                  {userId1, userId2} \subseteq Range(conversations[c].participants)}
  IN IF found = {} THEN NoId ELSE MinOf(found)

\* the collection with document d stored under id
Insert(coll, id, d) == [k \in DOMAIN coll \cup {id} |-> IF k = id THEN d ELSE coll[k]]

\* the collection without the documents whose ids are in ids
Remove(coll, ids) == [k \in DOMAIN coll \ ids |-> coll[k]]

(* --------------------------- chat routes ------------------------------- *)
CanChat(u, t) ==
  /\ u \in DOMAIN users
  /\ LET req == [NoReq EXCEPT !.op = "canChat", !.user = u, !.target = t]
     IN IF t \notin DOMAIN users
        THEN res' = [req EXCEPT !.status = 404]
        ELSE IF t = u
        THEN res' = [req EXCEPT !.status = 200, !.canChat = FALSE]
        ELSE res' = [req EXCEPT !.status = 200, !.canChat = checkMutualFollow(u, t)]
  /\ emitted' = <<>>
  /\ UNCHANGED <<users, posts, conversations, messages, sockets, connectedUsers, seq, now, pending>>

newConversationSolo(userId, targetId, t0) ==
  [participants |-> <<userId>>, lastMessage |-> NoId, lastActivity |-> t0]

\* new Conversation({ participants: [currentUserId, targetUser._id] })
newConversation(userId, targetId, t0) ==
  [participants |-> <<userId, targetId>>, lastMessage |-> NoId, lastActivity |-> t0]

GetOrCreateConversation(u, t) ==
  /\ u \in DOMAIN users
  /\ LET req == [NoReq EXCEPT !.op = "getOrCreate", !.user = u, !.target = t]
     IN IF t \notin DOMAIN users
        THEN /\ res' = [req EXCEPT !.status = 404]
             /\ UNCHANGED <<conversations, seq, now>>
        ELSE IF ~checkMutualFollow(u, t)
        THEN /\ res' = [req EXCEPT !.status = 403]
             /\ UNCHANGED <<conversations, seq, now>>
        ELSE LET conversation == findConversation(u, t)
             IN IF conversation # NoId
                THEN /\ res' = [req EXCEPT !.status = 200, !.conv = conversation]
                     /\ UNCHANGED <<conversations, seq, now>>
                ELSE /\ seq.conv < MaxConvs
                     /\ \E t0 \in Times(now) :
                          LET id == seq.conv + 1
                          IN /\ conversations' =
                                  Insert(conversations, id, newConversation(u, t, t0))
                             /\ seq' = [seq EXCEPT !.conv = id]
                             /\ now' = t0
                             /\ res' = [req EXCEPT !.status = 200, !.conv = id]
  /\ emitted' = <<>>
  /\ UNCHANGED <<users, posts, messages, sockets, connectedUsers, pending>>

\* --- POST /conversation/:username, one action per await ---
\* a get-or-create request: pc is the await it is about to run
NewCall(u, t) ==
  [op |-> "getOrCreate", user |-> u, target |-> t, pc |-> "findUser",
   user1FollowsUser2 |-> FALSE, conv |-> NoId, created |-> FALSE, status |-> 0]

\* the request arrives (the caller is authenticated)
StartGetOrCreate(u, t) ==
  /\ u \in DOMAIN users
  /\ Len(pending) < MaxPending
  /\ pending' = Append(pending, NewCall(u, t))
  /\ UNCHANGED <<users, posts, conversations, messages, sockets, connectedUsers,
                 seq, now, res, emitted>>

\* User.findOne({ username })
GocFindUser(r) ==
  /\ r \in DOMAIN pending
  /\ pending[r].pc = "findUser"
  /\ LET call == pending[r]
     IN pending' = [pending EXCEPT ![r] =
                      IF call.target \notin DOMAIN users
                      THEN [call EXCEPT !.pc = "done", !.status = 404]
                      ELSE [call EXCEPT !.pc = "findUser1"]]
  /\ UNCHANGED <<users, posts, conversations, messages, sockets, connectedUsers,
                 seq, now, res, emitted>>

\* checkMutualFollow: const user1 = await User.findById(userId1)
GocFindUser1(r) ==
  /\ r \in DOMAIN pending
  /\ pending[r].pc = "findUser1"
  /\ LET call == pending[r]
     IN pending' = [pending EXCEPT ![r] =
                      IF call.user \notin DOMAIN users
                      THEN [call EXCEPT !.pc = "done", !.status = 403]
                      ELSE [call EXCEPT !.pc = "findUser2",
                                        !.user1FollowsUser2 =
                                           call.target \in users[call.user].following]]
  /\ UNCHANGED <<users, posts, conversations, messages, sockets, connectedUsers,
                 seq, now, res, emitted>>

\* checkMutualFollow: const user2 = await User.findById(userId2), and the answer
GocFindUser2(r) ==
  /\ r \in DOMAIN pending
  /\ pending[r].pc = "findUser2"
  /\ LET call == pending[r]
     IN pending' = [pending EXCEPT ![r] =
                      IF /\ call.target \in DOMAIN users
                         /\ call.user1FollowsUser2
                         /\ call.user \in users[call.target].following
                      THEN [call EXCEPT !.pc = "findConversation"]
                      ELSE [call EXCEPT !.pc = "done", !.status = 403]]
  /\ UNCHANGED <<users, posts, conversations, messages, sockets, connectedUsers,
                 seq, now, res, emitted>>

\* Conversation.findConversation(currentUserId, targetUser._id)
GocFindConversation(r) ==
  /\ r \in DOMAIN pending
  /\ pending[r].pc = "findConversation"
  /\ LET conversation == findConversation(pending[r].user, pending[r].target)
         call == pending[r]
     IN pending' = [pending EXCEPT ![r] =
                      IF conversation # NoId
                      THEN [call EXCEPT !.pc = "done", !.status = 200, !.conv = conversation]
                      ELSE [call EXCEPT !.pc = "save"]]
  /\ UNCHANGED <<users, posts, conversations, messages, sockets, connectedUsers,
                 seq, now, res, emitted>>

\* conversation.save(), and the answer
GocSave(r) ==
  /\ r \in DOMAIN pending
  /\ pending[r].pc = "save"
  /\ seq.conv < MaxConvs
  /\ \E t0 \in Times(now) :
       LET id == seq.conv + 1
       IN /\ conversations' =
               Insert(conversations, id,
                      newConversation(pending[r].user, pending[r].target, t0))
          /\ seq' = [seq EXCEPT !.conv = id]
          /\ now' = t0
          /\ pending' = [pending EXCEPT ![r] =
                           [pending[r] EXCEPT !.pc = "done", !.status = 200,
                                              !.conv = id, !.created = TRUE]]
  /\ UNCHANGED <<users, posts, messages, sockets, connectedUsers, res, emitted>>

\* body('content').optional().isLength({ max: 1000 })
isLengthMaxExclusive(content) == Len(content) < MaxContentLength

isLengthMax(content) == Len(content) <= MaxContentLength

\* !content && !image
missingContentAndImage(content, image) == content = "" /\ image = NoImage

isParticipantAnyStored(conversationId, userId) ==
  conversationId \in DOMAIN conversations

\* conversation && conversation.participants.includes(currentUserId)
isParticipant(conversationId, userId) ==
  /\ conversationId \in DOMAIN conversations
  /\ userId \in Range(conversations[conversationId].participants)

otherParticipantFirst(conversationId, userId) ==
  conversations[conversationId].participants[1]

\* conversation.participants.find(p => p.toString() !== currentUserId.toString())
otherParticipant(conversationId, userId) ==
  LET ps == conversations[conversationId].participants
      others == {i \in DOMAIN ps : ps[i] # userId}
  IN IF others = {} THEN NoUser ELSE ps[MinOf(others)]

\* `${req.protocol}://${req.get('host')}/uploads/chat/${message.image}` or null
chatImageUrl(image) ==
  IF image = NoImage THEN NoImage ELSE "http://host/uploads/chat/" \o image

formattedMessage(id, message, currentUserId) ==
  [id |-> id,
   content |-> message.content,
   image |-> chatImageUrl(message.image),
   messageType |-> message.messageType,
   sender |-> message.sender,
   createdAt |-> message.createdAt,
   isOwn |-> message.sender = currentUserId]

newMessage(conversationId, userId, content, image, t) ==
  [conversation |-> conversationId,
   sender |-> userId,
   content |-> content,
   image |-> image,
   messageType |-> IF image # NoImage THEN "image" ELSE "text",
   isDeleted |-> FALSE,
   deletedAt |-> NoDate,
   createdAt |-> t]

\* Conversation.findByIdAndUpdate(conversationId, { lastMessage, lastActivity })
touchConversationKeepPointer(conversation, messageId, t) ==
  [conversation EXCEPT !.lastActivity = t]

touchConversation(conversation, messageId, t) ==
  [conversation EXCEPT !.lastMessage = messageId, !.lastActivity = t]

SendMessage(u, c, content, image) ==
  /\ u \in DOMAIN users
  /\ LET req == [NoReq EXCEPT !.op = "send", !.user = u, !.conv = c,
                              !.content = content, !.image = image]
         refuse(status) ==
           /\ res' = [req EXCEPT !.status = status]
           /\ emitted' = <<>>
           /\ UNCHANGED <<conversations, messages, seq, now>>
     IN IF ~isLengthMax(content) THEN refuse(400)
        ELSE IF missingContentAndImage(content, image) THEN refuse(400)
        ELSE IF ~isParticipant(c, u) THEN refuse(403)
        ELSE IF ~checkMutualFollow(u, otherParticipant(c, u)) THEN refuse(403)
        ELSE /\ seq.msg < MaxMsgs
             /\ \E t1 \in Times(now) : \E t2 \in Times(t1) :
                  LET id == seq.msg + 1
                      message == newMessage(c, u, content, image, t1)
                  IN /\ messages' = Insert(messages, id, message)
                     /\ conversations' =
                          [conversations EXCEPT ![c] = touchConversation(@, id, t2)]
                     /\ seq' = [seq EXCEPT !.msg = id]
                     /\ now' = t2
                     /\ emitted' = <<Emission("new_message", c,
                                              formattedMessage(id, message, u),
                                              RoomMembers(c))>>
                     /\ res' = [req EXCEPT !.status = 201, !.msg = id]
  /\ UNCHANGED <<users, posts, sockets, connectedUsers, pending>>

\* --- POST /message, one action per await ---
\* a send request: pc is the await it is about to run
NewSend(u, c, content, image) ==
  [op |-> "send", user |-> u, conv |-> c, content |-> content, image |-> image,
   pc |-> "sendFindConversation", other |-> NoUser, user1FollowsUser2 |-> FALSE,
   msg |-> NoId, createdAt |-> NoDate, senderFound |-> FALSE, status |-> 0]

\* the request arrives (the caller is authenticated) and its body is validated
StartSend(u, c, content, image) ==
  /\ u \in DOMAIN users
  /\ Len(pending) < MaxPending
  /\ pending' = Append(pending,
                       IF ~isLengthMax(content) \/ missingContentAndImage(content, image)
                       THEN [NewSend(u, c, content, image) EXCEPT !.pc = "done",
                                                                  !.status = 400]
                       ELSE NewSend(u, c, content, image))
  /\ UNCHANGED <<users, posts, conversations, messages, sockets, connectedUsers,
                 seq, now, res, emitted>>

\* Conversation.findById(conversationId), the participant check, otherParticipant
SendFindConversation(r) ==
  /\ r \in DOMAIN pending
  /\ pending[r].pc = "sendFindConversation"
  /\ LET call == pending[r]
     IN pending' = [pending EXCEPT ![r] =
                      IF ~isParticipant(call.conv, call.user)
                      THEN [call EXCEPT !.pc = "done", !.status = 403]
                      ELSE [call EXCEPT !.pc = "sendFindUser1",
                                        !.other = otherParticipant(call.conv, call.user)]]
  /\ UNCHANGED <<users, posts, conversations, messages, sockets, connectedUsers,
                 seq, now, res, emitted>>

\* checkMutualFollow: const user1 = await User.findById(userId1)
SendFindUser1(r) ==
  /\ r \in DOMAIN pending
  /\ pending[r].pc = "sendFindUser1"
  /\ LET call == pending[r]
     IN pending' = [pending EXCEPT ![r] =
                      IF call.user \notin DOMAIN users
                      THEN [call EXCEPT !.pc = "done", !.status = 403]
                      ELSE [call EXCEPT !.pc = "sendFindUser2",
                                        !.user1FollowsUser2 =
                                           call.other \in users[call.user].following]]
  /\ UNCHANGED <<users, posts, conversations, messages, sockets, connectedUsers,
                 seq, now, res, emitted>>

\* checkMutualFollow: const user2 = await User.findById(userId2), and the answer
SendFindUser2(r) ==
  /\ r \in DOMAIN pending
  /\ pending[r].pc = "sendFindUser2"
  /\ LET call == pending[r]
     IN pending' = [pending EXCEPT ![r] =
                      IF /\ call.other \in DOMAIN users
                         /\ call.user1FollowsUser2
                         /\ call.user \in users[call.other].following
                      THEN [call EXCEPT !.pc = "sendSave"]
                      ELSE [call EXCEPT !.pc = "done", !.status = 403]]
  /\ UNCHANGED <<users, posts, conversations, messages, sockets, connectedUsers,
                 seq, now, res, emitted>>

\* message.save()
SendSave(r) ==
  /\ r \in DOMAIN pending
  /\ pending[r].pc = "sendSave"
  /\ seq.msg < MaxMsgs
  /\ \E t1 \in Times(now) :
       LET id == seq.msg + 1
           call == pending[r]
       IN /\ messages' = Insert(messages, id,
                                newMessage(call.conv, call.user, call.content,
                                           call.image, t1))
          /\ seq' = [seq EXCEPT !.msg = id]
          /\ now' = t1
          /\ pending' = [pending EXCEPT ![r] =
                           [call EXCEPT !.pc = "sendPopulate", !.msg = id,
                                        !.createdAt = t1]]
  /\ UNCHANGED <<users, posts, conversations, sockets, connectedUsers, res, emitted>>

\* message.populate('sender', ...): null when the sender's record is gone
SendPopulate(r) ==
  /\ r \in DOMAIN pending
  /\ pending[r].pc = "sendPopulate"
  /\ LET call == pending[r]
     IN pending' = [pending EXCEPT ![r] =
                      [call EXCEPT !.pc = "sendUpdate",
                                   !.senderFound = call.user \in DOMAIN users]]
  /\ UNCHANGED <<users, posts, conversations, messages, sockets, connectedUsers,
                 seq, now, res, emitted>>

\* Conversation.findByIdAndUpdate (nothing is updated when the conversation is
\* gone), then the emit and the 201; reading message.sender._id of a sender
\* that populate did not find throws, which the handler answers with 500
SendUpdate(r) ==
  /\ r \in DOMAIN pending
  /\ pending[r].pc = "sendUpdate"
  /\ \E t2 \in Times(now) :
       LET call == pending[r]
           message == newMessage(call.conv, call.user, call.content, call.image,
                                 call.createdAt)
       IN /\ conversations' =
               IF call.conv \in DOMAIN conversations
               THEN [conversations EXCEPT
                       ![call.conv] = touchConversation(@, call.msg, t2)]
               ELSE conversations
          /\ now' = t2
          /\ IF call.senderFound
             THEN /\ emitted' = <<Emission("new_message", call.conv,
                                           formattedMessage(call.msg, message, call.user),
                                           RoomMembers(call.conv))>>
                  /\ pending' = [pending EXCEPT ![r] =
                                   [call EXCEPT !.pc = "done", !.status = 201]]
             ELSE /\ emitted' = <<>>
                  /\ pending' = [pending EXCEPT ![r] =
                                   [call EXCEPT !.pc = "done", !.status = 500]]
  /\ UNCHANGED <<users, posts, messages, sockets, connectedUsers, seq, res>>

SendFailRetry(r) ==
  /\ r \in DOMAIN pending
  /\ pending[r].pc \in {"sendPopulate", "sendUpdate"}
  /\ pending' = [pending EXCEPT ![r] =
                   [pending[r] EXCEPT !.pc = "done", !.status = 500]]
  /\ conversations' =
       IF pending[r].conv \in DOMAIN conversations
       THEN [conversations EXCEPT
               ![pending[r].conv] = touchConversation(@, pending[r].msg, now)]
       ELSE conversations
  /\ emitted' = <<>>
  /\ UNCHANGED <<users, posts, messages, sockets, connectedUsers, seq, now, res>>

\* an await after the insert rejects (the database is unreachable): catch, 500
SendFail(r) ==
  /\ r \in DOMAIN pending
  /\ pending[r].pc \in {"sendPopulate", "sendUpdate"}
  /\ pending' = [pending EXCEPT ![r] =
                   [pending[r] EXCEPT !.pc = "done", !.status = 500]]
  /\ emitted' = <<>>
  /\ UNCHANGED <<users, posts, conversations, messages, sockets, connectedUsers,
                 seq, now, res>>

\* message.sender.toString() !== currentUserId.toString()
isSenderAnyone(messageId, userId) == TRUE

isSender(messageId, userId) == messages[messageId].sender = userId

softDelete(message, t) == [message EXCEPT !.isDeleted = TRUE, !.deletedAt = t]

DeleteMessage(u, m) ==
  /\ u \in DOMAIN users
  /\ LET req == [NoReq EXCEPT !.op = "deleteMessage", !.user = u, !.msg = m]
     IN IF m \notin DOMAIN messages
        THEN /\ res' = [req EXCEPT !.status = 404]
             /\ emitted' = <<>>
             /\ UNCHANGED <<messages, now>>
        ELSE IF ~isSender(m, u)
        THEN /\ res' = [req EXCEPT !.status = 403]
             /\ emitted' = <<>>
             /\ UNCHANGED <<messages, now>>
        ELSE \E t \in Times(now) :
               /\ messages' = [messages EXCEPT ![m] = softDelete(@, t)]
               /\ now' = t
               /\ emitted' = <<Emission("message_deleted", messages[m].conversation,
                                        [messageId |-> m],
                                        RoomMembers(messages[m].conversation))>>
               /\ res' = [req EXCEPT !.status = 200]
  /\ UNCHANGED <<users, posts, conversations, sockets, connectedUsers, seq, pending>>

(* ------------------------- message history ----------------------------- *)
Reverse(s) == [i \in 1..Len(s) |-> s[Len(s) + 1 - i]]

\* Message.find({ conversation, isDeleted: false })
messagesQueryAll(conversationId) ==
  {m \in DOMAIN messages : messages[m].conversation = conversationId}

messagesQuery(conversationId) ==
  {m \in DOMAIN messages :
     messages[m].conversation = conversationId /\ ~messages[m].isDeleted}

\* .sort({ createdAt: -1 }): every order the sort may return (ties are unordered)
sortNewestFirst(S) ==
  {s \in [1..Cardinality(S) -> S] :
     /\ \A i, j \in 1..Cardinality(S) : i # j => s[i] # s[j]
     /\ \A i, j \in 1..Cardinality(S) :
          i < j => messages[s[i]].createdAt >= messages[s[j]].createdAt}

\* .limit(limit * 1).skip((page - 1) * limit)
skipLimit(s, page, limit) ==
  SubSeq(s, (page - 1) * limit + 1, Min(page * limit, Len(s)))

listMessagesStatusNotFound(conversationId, userId) ==
  IF conversationId \notin DOMAIN conversations THEN 404
  ELSE IF ~isParticipant(conversationId, userId) THEN 403 ELSE 200

\* if (!conversation || !conversation.participants.includes(currentUserId))
listMessagesStatus(conversationId, userId) ==
  IF ~isParticipant(conversationId, userId) THEN 403 ELSE 200

\* the bodies GET /conversation/:conversationId/messages may answer with
listMessages(conversationId, userId, page, limit) ==
  IF ~isParticipant(conversationId, userId)
  THEN {}
  ELSE {LET shown == Reverse(skipLimit(s, page, limit))
        IN [i \in 1..Len(shown) |-> formattedMessage(shown[i], messages[shown[i]], userId)] :
          s \in sortNewestFirst(messagesQuery(conversationId))}

Pages == 1..MaxPages
Limits == {1, 2, DefaultLimit}

ListMessages(u, c, page, limit) ==
  /\ u \in DOMAIN users
  /\ LET req == [NoReq EXCEPT !.op = "listMessages", !.user = u, !.conv = c,
                              !.page = page, !.limit = limit]
     IN IF listMessagesStatus(c, u) # 200
        THEN res' = [req EXCEPT !.status = listMessagesStatus(c, u)]
        ELSE \E body \in listMessages(c, u, page, limit) :
               res' = [req EXCEPT !.status = 200, !.body = body]
  /\ emitted' = <<>>
  /\ UNCHANGED <<users, posts, conversations, messages, sockets, connectedUsers, seq, now, pending>>

(* ------------------------------ inbox ---------------------------------- *)
\* .populate('lastMessage'): the preview of the message, null when there is none
NoPreview == [content |-> "", messageType |-> "none", createdAt |-> NoDate]

lastMessagePreview(conversation) ==
  IF conversation.lastMessage \in DOMAIN messages
  THEN [content |-> messages[conversation.lastMessage].content,
        messageType |-> messages[conversation.lastMessage].messageType,
        createdAt |-> messages[conversation.lastMessage].createdAt]
  ELSE NoPreview

formattedConversation(id, userId) ==
  [id |-> id,
   participant |-> otherParticipant(id, userId),
   lastMessage |-> lastMessagePreview(conversations[id]),
   lastActivity |-> conversations[id].lastActivity]

\* Conversation.find({ participants: currentUserId }).sort({ lastActivity: -1 })
listConversations(userId) ==
  LET S == {c \in DOMAIN conversations : userId \in Range(conversations[c].participants)}
  IN {[i \in 1..Cardinality(S) |-> formattedConversation(s[i], userId)] :
        s \in {q \in [1..Cardinality(S) -> S] :
                 /\ \A i, j \in 1..Cardinality(S) : i # j => q[i] # q[j]
                 /\ \A i, j \in 1..Cardinality(S) :
                      i < j => conversations[q[i]].lastActivity
                                 >= conversations[q[j]].lastActivity}}

ListConversations(u) ==
  /\ u \in DOMAIN users
  /\ \E body \in listConversations(u) :
       res' = [NoReq EXCEPT !.op = "listConversations", !.user = u,
                            !.status = 200, !.body = body]
  /\ emitted' = <<>>
  /\ UNCHANGED <<users, posts, conversations, messages, sockets, connectedUsers, seq, now, pending>>

(* --------------------------- Socket.IO --------------------------------- *)
Connect(u) ==
  /\ u \in DOMAIN users
  /\ seq.socket < MaxSockets
  /\ LET id == seq.socket + 1
     IN /\ sockets' = Insert(sockets, id, [user |-> u, rooms |-> {}])
        /\ connectedUsers' = Insert(connectedUsers, u, id)
        /\ seq' = [seq EXCEPT !.socket = id]
        /\ res' = [NoReq EXCEPT !.op = "connect", !.user = u, !.socket = id]
  /\ emitted' = <<>>
  /\ UNCHANGED <<users, posts, conversations, messages, now, pending>>

JoinConversation(s, c) ==
  /\ s \in DOMAIN sockets
  /\ sockets' = [sockets EXCEPT ![s].rooms = IF c \in @ THEN @ ELSE @ \cup {c}]
  /\ res' = [NoReq EXCEPT !.op = "join_conversation", !.user = sockets[s].user,
                          !.socket = s, !.conv = c]
  /\ emitted' = <<>>
  /\ UNCHANGED <<users, posts, conversations, messages, connectedUsers, seq, now, pending>>

LeaveConversation(s, c) ==
  /\ s \in DOMAIN sockets
  /\ sockets' = [sockets EXCEPT ![s].rooms = @ \ {c}]
  /\ res' = [NoReq EXCEPT !.op = "leave_conversation", !.user = sockets[s].user,
                          !.socket = s, !.conv = c]
  /\ emitted' = <<>>
  /\ UNCHANGED <<users, posts, conversations, messages, connectedUsers, seq, now, pending>>

Typing(s, c, isTyping) ==
  /\ s \in DOMAIN sockets
  /\ emitted' = <<Emission("user_typing", c,
                           [username |-> sockets[s].user, isTyping |-> isTyping],
                           RoomMembers(c) \ {s})>>
  /\ res' = [NoReq EXCEPT !.op = "typing", !.user = sockets[s].user,
                          !.socket = s, !.conv = c]
  /\ UNCHANGED <<users, posts, conversations, messages, sockets, connectedUsers, seq, now, pending>>

Disconnect(s) ==
  /\ s \in DOMAIN sockets
  /\ sockets' = Remove(sockets, {s})
  /\ connectedUsers' = Remove(connectedUsers, {sockets[s].user})
  /\ res' = [NoReq EXCEPT !.op = "disconnect", !.user = sockets[s].user, !.socket = s]
  /\ emitted' = <<>>
  /\ UNCHANGED <<users, posts, conversations, messages, seq, now, pending>>

(* ----------------------------- Post model ----------------------------- *)
preSaveOffByOne(post, likesModified) ==
  IF likesModified THEN [post EXCEPT !.likesCount = Len(post.likes) - 1] ELSE post

\* postSchema.pre('save'): likesCount follows likes when likes was modified
preSave(post, likesModified) ==
  IF likesModified THEN [post EXCEPT !.likesCount = Len(post.likes)] ELSE post

hasUserLikedNever(post, userId) == FALSE

\* this.likes.some(like => like.user.toString() === userId.toString())
hasUserLiked(post, userId) == \E i \in DOMAIN post.likes : post.likes[i] = userId

\* addLike: the post after this.likes.push({ user: userId })
addLike(post, userId) ==
  IF hasUserLiked(post, userId) THEN post
  ELSE [post EXCEPT !.likes = Append(@, userId)]

\* this.likes.filter(like => like.user.toString() !== userIdStr)
withoutLikesOf(likes, userId) == SelectSeq(likes, LAMBDA l : l # userId)

removeLike(post, userId) == [post EXCEPT !.likes = withoutLikesOf(@, userId)]

(* ---------------------------- posts routes ----------------------------- *)
Texts == {"", "hola"}

CreatePost(u, text) ==
  /\ u \in DOMAIN users
  /\ LET req == [NoReq EXCEPT !.op = "createPost", !.user = u, !.content = text]
     IN IF text = ""
        THEN /\ res' = [req EXCEPT !.status = 400]
             /\ emitted' = <<>>
             /\ UNCHANGED <<posts, seq>>
        ELSE /\ seq.post < MaxPosts
             /\ LET id == seq.post + 1
                IN /\ posts' = Insert(posts, id,
                                      preSave([author |-> u, text |-> text,
                                               likes |-> <<>>, likesCount |-> 0], FALSE))
                   /\ seq' = [seq EXCEPT !.post = id]
                   /\ emitted' = <<Emission("new_post", NoId,
                                            [id |-> id, author |-> u, likesCount |-> 0],
                                            AllSockets)>>
                   /\ res' = [req EXCEPT !.status = 201, !.post = id]
  /\ UNCHANGED <<users, conversations, messages, sockets, connectedUsers, now, pending>>

LikePost(u, p) ==
  /\ u \in DOMAIN users
  /\ LET req == [NoReq EXCEPT !.op = "like", !.user = u, !.post = p]
     IN IF p \notin DOMAIN posts
        THEN /\ res' = [req EXCEPT !.status = 404]
             /\ emitted' = <<>>
             /\ UNCHANGED posts
        ELSE IF hasUserLiked(posts[p], u)
        THEN /\ res' = [req EXCEPT !.status = 400]
             /\ emitted' = <<>>
             /\ UNCHANGED posts
        ELSE IF addLike(posts[p], u) = posts[p]
        THEN /\ res' = [req EXCEPT !.status = 400]
             /\ emitted' = <<>>
             /\ UNCHANGED posts
        ELSE LET post == preSave(addLike(posts[p], u), TRUE)
             IN /\ posts' = [posts EXCEPT ![p] = post]
                /\ emitted' = <<Emission("post_liked", NoId,
                                         [postId |-> p, likesCount |-> post.likesCount,
                                          likedBy |-> u],
                                         AllSockets)>>
                /\ res' = [req EXCEPT !.status = 200]
  /\ UNCHANGED <<users, conversations, messages, sockets, connectedUsers, seq, now, pending>>

UnlikePost(u, p) ==
  /\ u \in DOMAIN users
  /\ LET req == [NoReq EXCEPT !.op = "unlike", !.user = u, !.post = p]
     IN IF p \notin DOMAIN posts
        THEN /\ res' = [req EXCEPT !.status = 404]
             /\ emitted' = <<>>
             /\ UNCHANGED posts
        ELSE IF ~hasUserLiked(posts[p], u)
        THEN /\ res' = [req EXCEPT !.status = 400]
             /\ emitted' = <<>>
             /\ UNCHANGED posts
        ELSE IF Len(removeLike(posts[p], u).likes) >= Len(posts[p].likes)
        THEN /\ res' = [req EXCEPT !.status = 400]
             /\ emitted' = <<>>
             /\ UNCHANGED posts
        ELSE LET post == preSave(removeLike(posts[p], u), TRUE)
             IN /\ posts' = [posts EXCEPT ![p] = post]
                /\ emitted' = <<Emission("post_unliked", NoId,
                                         [postId |-> p, likesCount |-> post.likesCount,
                                          unlikedBy |-> u],
                                         AllSockets)>>
                /\ res' = [req EXCEPT !.status = 200]
  /\ UNCHANGED <<users, conversations, messages, sockets, connectedUsers, seq, now, pending>>

DeletePost(u, p) ==
  /\ u \in DOMAIN users
  /\ LET req == [NoReq EXCEPT !.op = "deletePost", !.user = u, !.post = p]
     IN IF p \notin DOMAIN posts
        THEN /\ res' = [req EXCEPT !.status = 404]
             /\ emitted' = <<>>
             /\ UNCHANGED posts
        ELSE IF posts[p].author # u
        THEN /\ res' = [req EXCEPT !.status = 403]
             /\ emitted' = <<>>
             /\ UNCHANGED posts
        ELSE /\ posts' = Remove(posts, {p})
             /\ emitted' = <<Emission("post_deleted", NoId, [postId |-> p], AllSockets)>>
             /\ res' = [req EXCEPT !.status = 200]
  /\ UNCHANGED <<users, conversations, messages, sockets, connectedUsers, seq, now, pending>>

\* --- POST /:id/like and DELETE /:id/like, one action per await ---
\* a like or unlike request: pc is the await it is about to run, doc the copy
\* of the post it loaded, stale whether the stored post's version (__v) has
\* moved on since it was loaded (every save of a like list increments it)
NewLikeCall(op, u, p) ==
  [op |-> op, user |-> u, post |-> p, pc |-> op \o "Find",
   doc |-> [author |-> NoUser, text |-> "", likes |-> <<>>, likesCount |-> 0],
   stale |-> FALSE, status |-> 0]

\* the request arrives (the caller is authenticated)
StartLike(u, p) ==
  /\ u \in DOMAIN users
  /\ Len(pending) < MaxLikeCalls
  /\ pending' = Append(pending, NewLikeCall("like", u, p))
  /\ UNCHANGED <<users, posts, conversations, messages, sockets, connectedUsers,
                 seq, now, res, emitted>>

StartUnlike(u, p) ==
  /\ u \in DOMAIN users
  /\ Len(pending) < MaxLikeCalls
  /\ pending' = Append(pending, NewLikeCall("unlike", u, p))
  /\ UNCHANGED <<users, posts, conversations, messages, sockets, connectedUsers,
                 seq, now, res, emitted>>

\* the other requests that loaded post p and will save its like list as a
\* whole learn at their save that the version has moved on
markStale(calls, r, p) ==
  [k \in DOMAIN calls |->
     IF k # r /\ calls[k].pc = "unlikeSave" /\ calls[k].post = p
     THEN [calls[k] EXCEPT !.stale = TRUE]
     ELSE calls[k]]

\* likesCount is written only when pre('save') changed it on the loaded copy
savedLikesCount(stored, doc, local) ==
  IF local.likesCount # doc.likesCount THEN local.likesCount ELSE stored.likesCount

\* like.user.username of the last three likes, which throws for a user that
\* populate did not find
recentLikesThrow(likes) ==
  \E i \in DOMAIN likes : i > Len(likes) - 3 /\ likes[i] \notin DOMAIN users

\* Post.findById(postId), hasUserLiked, addLike
LikeFind(r) ==
  /\ r \in DOMAIN pending
  /\ pending[r].pc = "likeFind"
  /\ LET call == pending[r]
     IN pending' = [pending EXCEPT ![r] =
                      IF call.post \notin DOMAIN posts
                      THEN [call EXCEPT !.pc = "done", !.status = 404]
                      ELSE IF hasUserLiked(posts[call.post], call.user)
                      THEN [call EXCEPT !.pc = "done", !.status = 400]
                      ELSE IF addLike(posts[call.post], call.user) = posts[call.post]
                      THEN [call EXCEPT !.pc = "done", !.status = 400]
                      ELSE [call EXCEPT !.pc = "likeSave", !.doc = posts[call.post]]]
  /\ UNCHANGED <<users, posts, conversations, messages, sockets, connectedUsers,
                 seq, now, res, emitted>>

\* post.save() after likes.push: the new like is appended to the stored list
\* ($push, no version check) and likesCount is set from the loaded copy
LikeSave(r) ==
  /\ r \in DOMAIN pending
  /\ pending[r].pc = "likeSave"
  /\ LET call == pending[r]
         local == preSave(addLike(call.doc, call.user), TRUE)
     IN IF call.post \notin DOMAIN posts
        THEN /\ pending' = [pending EXCEPT ![r] =
                              [call EXCEPT !.pc = "done", !.status = 500]]
             /\ UNCHANGED posts
        ELSE /\ posts' = [posts EXCEPT ![call.post] =
                            [@ EXCEPT !.likes = Append(@, call.user),
                                      !.likesCount =
                                         savedLikesCount(posts[call.post], call.doc, local)]]
             /\ pending' = [markStale(pending, r, call.post) EXCEPT ![r] =
                              [call EXCEPT !.pc = "likePopulate", !.doc = local]]
  /\ UNCHANGED <<users, conversations, messages, sockets, connectedUsers,
                 seq, now, res, emitted>>

\* post.populate, the post_liked emit with the copy's likesCount, and the 200
LikePopulate(r) ==
  /\ r \in DOMAIN pending
  /\ pending[r].pc = "likePopulate"
  /\ LET call == pending[r]
     IN IF recentLikesThrow(call.doc.likes)
        THEN /\ pending' = [pending EXCEPT ![r] =
                              [call EXCEPT !.pc = "done", !.status = 500]]
             /\ emitted' = <<>>
        ELSE /\ pending' = [pending EXCEPT ![r] =
                              [call EXCEPT !.pc = "done", !.status = 200]]
             /\ emitted' = <<Emission("post_liked", NoId,
                                      [postId |-> call.post,
                                       likesCount |-> call.doc.likesCount,
                                       likedBy |-> call.user],
                                      AllSockets)>>
  /\ UNCHANGED <<users, posts, conversations, messages, sockets, connectedUsers,
                 seq, now, res>>

\* Post.findById(postId), hasUserLiked, removeLike
UnlikeFind(r) ==
  /\ r \in DOMAIN pending
  /\ pending[r].pc = "unlikeFind"
  /\ LET call == pending[r]
     IN pending' = [pending EXCEPT ![r] =
                      IF call.post \notin DOMAIN posts
                      THEN [call EXCEPT !.pc = "done", !.status = 404]
                      ELSE IF ~hasUserLiked(posts[call.post], call.user)
                      THEN [call EXCEPT !.pc = "done", !.status = 400]
                      ELSE IF Len(removeLike(posts[call.post], call.user).likes)
                                >= Len(posts[call.post].likes)
                      THEN [call EXCEPT !.pc = "done", !.status = 400]
                      ELSE [call EXCEPT !.pc = "unlikeSave", !.doc = posts[call.post]]]
  /\ UNCHANGED <<users, posts, conversations, messages, sockets, connectedUsers,
                 seq, now, res, emitted>>

\* post.save() after likes was assigned the filtered list: the stored list is
\* replaced as a whole under the version loaded ($set with __v in the filter);
\* a version that has moved on is a VersionError, which the handler answers 500
UnlikeSave(r) ==
  /\ r \in DOMAIN pending
  /\ pending[r].pc = "unlikeSave"
  /\ LET call == pending[r]
         local == preSave(removeLike(call.doc, call.user), TRUE)
     IN IF call.post \notin DOMAIN posts \/ call.stale
        THEN /\ pending' = [pending EXCEPT ![r] =
                              [call EXCEPT !.pc = "done", !.status = 500]]
             /\ UNCHANGED posts
        ELSE /\ posts' = [posts EXCEPT ![call.post] =
                            [@ EXCEPT !.likes = local.likes,
                                      !.likesCount =
                                         savedLikesCount(posts[call.post], call.doc, local)]]
             /\ pending' = [markStale(pending, r, call.post) EXCEPT ![r] =
                              [call EXCEPT !.pc = "unlikePopulate", !.doc = local]]
  /\ UNCHANGED <<users, conversations, messages, sockets, connectedUsers,
                 seq, now, res, emitted>>

\* post.populate, the post_unliked emit with the copy's likesCount, and the 200
UnlikePopulate(r) ==
  /\ r \in DOMAIN pending
  /\ pending[r].pc = "unlikePopulate"
  /\ LET call == pending[r]
     IN IF recentLikesThrow(call.doc.likes)
        THEN /\ pending' = [pending EXCEPT ![r] =
                              [call EXCEPT !.pc = "done", !.status = 500]]
             /\ emitted' = <<>>
        ELSE /\ pending' = [pending EXCEPT ![r] =
                              [call EXCEPT !.pc = "done", !.status = 200]]
             /\ emitted' = <<Emission("post_unliked", NoId,
                                      [postId |-> call.post,
                                       likesCount |-> call.doc.likesCount,
                                       unlikedBy |-> call.user],
                                      AllSockets)>>
  /\ UNCHANGED <<users, posts, conversations, messages, sockets, connectedUsers,
                 seq, now, res>>

(* -------------------------- account deletion --------------------------- *)
\* the ids of S in ascending order
Ascending(S) ==
  CHOOSE s \in [1..Cardinality(S) -> S] :
    \A i, j \in 1..Cardinality(S) : i < j => s[i] < s[j]

\* steps 1-3: the user's posts go, the user's likes are pulled from the other
\* posts, and likesCount is rewritten on the posts Post.find({'likes.user':
\* {$exists: true}}) returns: the posts that still hold a like
postsAfterAccountDeletion(userId) ==
  LET kept == {p \in DOMAIN posts : posts[p].author # userId}
      pulled == [p \in kept |-> [posts[p] EXCEPT !.likes = withoutLikesOf(@, userId)]]
  IN [p \in kept |->
        IF pulled[p].likes # <<>>
        THEN preSave([pulled[p] EXCEPT !.likesCount = Len(pulled[p].likes)], FALSE)
        ELSE pulled[p]]

usersAfterAccountDeletionFollowersOnly(userId) ==
  [w \in DOMAIN users \ {userId} |->
     [following |-> users[w].following,
      followers |-> users[w].followers \ {userId}]]

\* step 4: $pull the user from every followers and following list
usersAfterAccountDeletion(userId) ==
  [w \in DOMAIN users \ {userId} |->
     [following |-> users[w].following \ {userId},
      followers |-> users[w].followers \ {userId}]]

\* step 5, per conversation of the user
conversationsOf(userId) ==
  {c \in DOMAIN conversations : userId \in Range(conversations[c].participants)}

conversationsAfterAccountDeletion(userId) ==
  LET mine == conversationsOf(userId)
      gone == {c \in mine : Len(conversations[c].participants) = 2}
  IN [c \in DOMAIN conversations \ gone |->
        IF c \in mine
        THEN [conversations[c] EXCEPT
                !.participants = SelectSeq(@, LAMBDA q : q # userId)]
        ELSE conversations[c]]

messagesAfterAccountDeletionOwnOnly(userId, t) ==
  LET mine == conversationsOf(userId)
  IN [m \in {k \in DOMAIN messages :
                ~(messages[k].conversation \in mine /\ messages[k].sender = userId)} |->
        messages[m]]

messagesAfterAccountDeletion(userId, t) ==
  LET mine == conversationsOf(userId)
      gone == {c \in mine : Len(conversations[c].participants) = 2}
      kept == {m \in DOMAIN messages : messages[m].conversation \notin gone}
  IN [m \in kept |->
        IF messages[m].conversation \in mine /\ messages[m].sender = userId
        THEN [messages[m] EXCEPT !.isDeleted = TRUE, !.deletedAt = t,
                                 !.content = RedactedContent]
        ELSE messages[m]]

DeleteAccount(u) ==
  /\ u \in DOMAIN users
  /\ \E t \in Times(now) :
       LET userPosts == Ascending({p \in DOMAIN posts : posts[p].author = u})
       IN /\ emitted' = [i \in 1..Len(userPosts) |->
                           Emission("post_deleted", NoId, [postId |-> userPosts[i]],
                                    AllSockets)]
          /\ posts' = postsAfterAccountDeletion(u)
          /\ users' = usersAfterAccountDeletion(u)
          /\ conversations' = conversationsAfterAccountDeletion(u)
          /\ messages' = messagesAfterAccountDeletion(u, t)
          /\ now' = IF conversationsOf(u) = {} THEN now ELSE t
          /\ res' = [NoReq EXCEPT !.op = "deleteAccount", !.user = u, !.status = 200]
  /\ UNCHANGED <<sockets, connectedUsers, seq, pending>>

(* --------------------------- specification ----------------------------- *)
\* the ids a request may name: those of the stored documents and an unknown one
RequestIds(coll, last) == DOMAIN coll \cup {last + 1}

Init ==
  /\ users = [u \in UserIds |-> [following |-> {}, followers |-> {}]]
  /\ posts = <<>>
  /\ conversations = <<>>
  /\ messages = <<>>
  /\ sockets = <<>>
  /\ connectedUsers = <<>>
  /\ seq = [post |-> 0, conv |-> 0, msg |-> 0, socket |-> 0]
  /\ now = 0
  /\ res = NoReq
  /\ emitted = <<>>
  /\ pending = <<>>

\* every request of every user
Next ==
  \/ \E u \in UserIds, t \in UserIds : Follow(u, t)
  \/ \E u \in UserIds, t \in UserIds : Unfollow(u, t)
  \/ \E u \in UserIds, t \in UserIds : CanChat(u, t)
  \/ \E u \in UserIds, t \in UserIds : GetOrCreateConversation(u, t)
  \/ \E u \in UserIds, c \in RequestIds(conversations, seq.conv), content \in Contents, image \in Images :
       SendMessage(u, c, content, image)
  \/ \E u \in UserIds, m \in RequestIds(messages, seq.msg) : DeleteMessage(u, m)
  \/ \E u \in UserIds, c \in RequestIds(conversations, seq.conv), page \in Pages, limit \in Limits :
       ListMessages(u, c, page, limit)
  \/ \E u \in UserIds : ListConversations(u)
  \/ \E u \in UserIds, text \in Texts : CreatePost(u, text)
  \/ \E u \in UserIds, p \in RequestIds(posts, seq.post) : LikePost(u, p)
  \/ \E u \in UserIds, p \in RequestIds(posts, seq.post) : UnlikePost(u, p)
  \/ \E u \in UserIds, p \in RequestIds(posts, seq.post) : DeletePost(u, p)
  \/ \E u \in UserIds : DeleteAccount(u)
  \/ \E u \in UserIds : Connect(u)
  \/ \E s \in SocketIds, c \in RequestIds(conversations, seq.conv) : JoinConversation(s, c)
  \/ \E s \in SocketIds, c \in RequestIds(conversations, seq.conv) : LeaveConversation(s, c)
  \/ \E s \in SocketIds, c \in RequestIds(conversations, seq.conv), isTyping \in BOOLEAN : Typing(s, c, isTyping)
  \/ \E s \in SocketIds : Disconnect(s)

Spec == Init /\ [][Next]_vars

\* the posts subsystem with account deletion
NextPosts ==
  \/ \E u \in UserIds, text \in Texts : CreatePost(u, text)
  \/ \E u \in UserIds, p \in RequestIds(posts, seq.post) : LikePost(u, p)
  \/ \E u \in UserIds, p \in RequestIds(posts, seq.post) : UnlikePost(u, p)
  \/ \E u \in UserIds, p \in RequestIds(posts, seq.post) : DeletePost(u, p)
  \/ \E u \in UserIds : DeleteAccount(u)

SpecPosts == Init /\ [][NextPosts]_vars

\* the follow graph and the conversation resolver with account deletion
NextGate ==
  \/ \E u \in UserIds, t \in UserIds : Follow(u, t)
  \/ \E u \in UserIds, t \in UserIds : Unfollow(u, t)
  \/ \E u \in UserIds, t \in UserIds : CanChat(u, t)
  \/ \E u \in UserIds, t \in UserIds : GetOrCreateConversation(u, t)
  \/ \E u \in UserIds : DeleteAccount(u)

SpecGate == Init /\ [][NextGate]_vars

\* the message pipeline with at most MaxChatMsgs stored messages: alice and bob
\* may follow each other and converse, carol is a registered user nobody follows
ChatPeers == {"alice", "bob"}

NextChat ==
  \/ \E u \in ChatPeers, t \in ChatPeers : Follow(u, t)
  \/ \E u \in ChatPeers, t \in ChatPeers : Unfollow(u, t)
  \/ \E u \in UserIds, t \in UserIds : GetOrCreateConversation(u, t)
  \/ \E u \in UserIds, c \in RequestIds(conversations, seq.conv), content \in Contents, image \in Images :
       SendMessage(u, c, content, image) /\ seq'.msg <= MaxChatMsgs
  \/ \E u \in UserIds, m \in RequestIds(messages, seq.msg) : DeleteMessage(u, m)
  \/ \E u \in UserIds : DeleteAccount(u)

SpecChat == Init /\ [][NextChat]_vars

\* the message pipeline with the notifier and at most MaxNotifySockets sockets:
\* alice and bob send and delete, every user may listen
NotifyContents == {"", Str1000}

NextNotify ==
  \/ \E u \in ChatPeers, t \in ChatPeers : Follow(u, t)
  \/ \E u \in ChatPeers, t \in ChatPeers : Unfollow(u, t)
  \/ \E u \in ChatPeers, t \in ChatPeers : GetOrCreateConversation(u, t)
  \/ \E u \in ChatPeers, c \in RequestIds(conversations, seq.conv), content \in NotifyContents, image \in Images :
       SendMessage(u, c, content, image) /\ seq'.msg <= MaxChatMsgs
  \/ \E u \in ChatPeers, m \in RequestIds(messages, seq.msg) : DeleteMessage(u, m)
  \/ \E u \in ChatPeers : DeleteAccount(u)
  \/ \E u \in UserIds : Connect(u) /\ seq'.socket <= MaxNotifySockets
  \/ \E s \in SocketIds, c \in RequestIds(conversations, seq.conv) : JoinConversation(s, c)
  \/ \E s \in SocketIds, c \in RequestIds(conversations, seq.conv) : LeaveConversation(s, c)
  \/ \E s \in SocketIds : Disconnect(s)

SpecNotify == Init /\ [][NextNotify]_vars

\* the message history: alice and bob follow each other, converse, send text
\* messages and delete them, and every user asks for pages of any conversation
HistoryContents == {"hi"}

NextHistory ==
  \/ \E u \in ChatPeers, t \in ChatPeers : Follow(u, t)
  \/ \E u \in ChatPeers, t \in ChatPeers : GetOrCreateConversation(u, t)
  \/ \E u \in ChatPeers, c \in RequestIds(conversations, seq.conv), content \in HistoryContents :
       SendMessage(u, c, content, NoImage)
  \/ \E u \in ChatPeers, m \in RequestIds(messages, seq.msg) : DeleteMessage(u, m)
  \/ \E u \in UserIds, c \in RequestIds(conversations, seq.conv), page \in Pages, limit \in Limits :
       ListMessages(u, c, page, limit)

SpecHistory == Init /\ [][NextHistory]_vars

\* access to conversations: every user may follow every other, alice and bob
\* converse, and every user sends to and asks for the history of any conversation
AccessContents == {"", "hi"}

NextAccess ==
  \/ \E u \in UserIds, t \in UserIds : Follow(u, t)
  \/ \E u \in ChatPeers, t \in ChatPeers : GetOrCreateConversation(u, t)
  \/ \E u \in UserIds, c \in RequestIds(conversations, seq.conv), content \in AccessContents :
       SendMessage(u, c, content, NoImage) /\ seq'.msg <= MaxChatMsgs
  \/ \E u \in UserIds, c \in RequestIds(conversations, seq.conv), page \in Pages :
       ListMessages(u, c, page, DefaultLimit)

SpecAccess == Init /\ [][NextAccess]_vars

\* the inbox: every user may follow and converse with every other, send one
\* text message, delete their account and ask for their conversations
NextInbox ==
  \/ \E u \in UserIds, t \in UserIds : Follow(u, t)
  \/ \E u \in UserIds, t \in UserIds : GetOrCreateConversation(u, t)
  \/ \E u \in UserIds, c \in RequestIds(conversations, seq.conv), content \in HistoryContents :
       SendMessage(u, c, content, NoImage) /\ seq'.msg <= MaxChatMsgs
  \/ \E u \in UserIds : DeleteAccount(u)
  \/ \E u \in UserIds : ListConversations(u)

SpecInbox == Init /\ [][NextInbox]_vars

\* the account-deletion cascade over stored conversations of both shapes the
\* schema admits (participants is a list of any length): the users follow one
\* another, conversation 1 is the pair alice, bob and conversation 2 holds a
\* third participant; every user sends, deletes messages and deletes the account
InitCascade ==
  /\ users = [u \in UserIds |-> [following |-> UserIds \ {u}, followers |-> UserIds \ {u}]]
  /\ posts = <<>>
  /\ conversations =
       <<[participants |-> <<"alice", "bob">>, lastMessage |-> NoId, lastActivity |-> 0],
         [participants |-> <<"alice", "bob", "carol">>, lastMessage |-> NoId,
          lastActivity |-> 0]>>
  /\ messages = <<>>
  /\ sockets = <<>>
  /\ connectedUsers = <<>>
  /\ seq = [post |-> 0, conv |-> Len(conversations), msg |-> 0, socket |-> 0]
  /\ now = 0
  /\ res = NoReq
  /\ emitted = <<>>
  /\ pending = <<>>

NextCascade ==
  \/ \E u \in UserIds, c \in RequestIds(conversations, seq.conv), content \in HistoryContents :
       SendMessage(u, c, content, NoImage)
  \/ \E u \in UserIds, m \in RequestIds(messages, seq.msg) : DeleteMessage(u, m)
  \/ \E u \in UserIds : DeleteAccount(u)

SpecCascade == InitCascade /\ [][NextCascade]_vars

\* everything an account owns or is referred to by: alice and bob follow each
\* other, publish, like, converse and send, and any user deletes their account
NextAccount ==
  \/ \E u \in ChatPeers, t \in ChatPeers : Follow(u, t)
  \/ \E u \in ChatPeers : CreatePost(u, "hola")
  \/ \E u \in ChatPeers, p \in RequestIds(posts, seq.post) : LikePost(u, p)
  \/ \E u \in ChatPeers, t \in ChatPeers : GetOrCreateConversation(u, t)
  \/ \E u \in ChatPeers, c \in RequestIds(conversations, seq.conv), content \in HistoryContents :
       SendMessage(u, c, content, NoImage) /\ seq'.msg <= MaxChatMsgs
  \/ \E u \in UserIds : DeleteAccount(u)

SpecAccount == Init /\ [][NextAccount]_vars

\* the notifier: alice and bob converse and alice publishes while sessions of
\* bob and of carol connect, join and leave rooms, type and disconnect
Listeners == {"bob", "carol"}

NextDeliver ==
  \/ \E u \in ChatPeers, t \in ChatPeers : Follow(u, t)
  \/ GetOrCreateConversation("alice", "bob")
  \/ \E u \in ChatPeers, c \in RequestIds(conversations, seq.conv), content \in HistoryContents :
       SendMessage(u, c, content, NoImage) /\ seq'.msg <= MaxChatMsgs
  \/ \E m \in RequestIds(messages, seq.msg) : DeleteMessage("alice", m)
  \/ CreatePost("alice", "hola")
  \/ \E u \in Listeners : Connect(u)
  \/ \E s \in SocketIds, c \in DOMAIN conversations : JoinConversation(s, c)
  \/ \E s \in SocketIds, c \in DOMAIN conversations : LeaveConversation(s, c)
  \/ \E s \in SocketIds, c \in DOMAIN conversations : Typing(s, c, TRUE)
  \/ \E s \in SocketIds : Disconnect(s)

SpecDeliver == Init /\ [][NextDeliver]_vars

\* first contact under concurrency: alice and bob follow each other and ask for
\* their conversation, each request running one await at a time
NextRace ==
  \/ \E u \in ChatPeers, t \in ChatPeers : Follow(u, t)
  \/ \E u \in ChatPeers, t \in ChatPeers : Unfollow(u, t)
  \/ \E u \in ChatPeers, t \in ChatPeers : StartGetOrCreate(u, t)
  \/ \E r \in 1..MaxPending : GocFindUser(r)
  \/ \E r \in 1..MaxPending : GocFindUser1(r)
  \/ \E r \in 1..MaxPending : GocFindUser2(r)
  \/ \E r \in 1..MaxPending : GocFindConversation(r)
  \/ \E r \in 1..MaxPending : GocSave(r)

SpecRace == Init /\ [][NextRace]_vars

\* sends under concurrency: alice and bob follow each other, converse and send
\* text messages, each send running one await at a time and none failing
NextSends ==
  \/ \E u \in ChatPeers, t \in ChatPeers : Follow(u, t)
  \/ \E u \in ChatPeers, t \in ChatPeers : GetOrCreateConversation(u, t)
  \/ \E u \in ChatPeers, c \in RequestIds(conversations, seq.conv), content \in AccessContents :
       StartSend(u, c, content, NoImage)
  \/ \E r \in 1..MaxPending : SendFindConversation(r)
  \/ \E r \in 1..MaxPending : SendFindUser1(r)
  \/ \E r \in 1..MaxPending : SendFindUser2(r)
  \/ \E r \in 1..MaxPending : SendSave(r)
  \/ \E r \in 1..MaxPending : SendPopulate(r)
  \/ \E r \in 1..MaxPending : SendUpdate(r)

SpecSends == Init /\ [][NextSends]_vars

\* sends that may fail: as above, and an await after the insert may reject
NextSendFail ==
  \/ \E u \in ChatPeers, t \in ChatPeers : Follow(u, t)
  \/ \E u \in ChatPeers, t \in ChatPeers : GetOrCreateConversation(u, t)
  \/ \E u \in ChatPeers, c \in RequestIds(conversations, seq.conv), content \in AccessContents :
       StartSend(u, c, content, NoImage)
  \/ \E r \in 1..MaxPending : SendFindConversation(r)
  \/ \E r \in 1..MaxPending : SendFindUser1(r)
  \/ \E r \in 1..MaxPending : SendFindUser2(r)
  \/ \E r \in 1..MaxPending : SendSave(r)
  \/ \E r \in 1..MaxPending : SendPopulate(r)
  \/ \E r \in 1..MaxPending : SendUpdate(r)
  \/ \E r \in 1..MaxPending : SendFail(r)

SpecSendFail == Init /\ [][NextSendFail]_vars

\* likes under concurrency: alice publishes, alice and bob like and unlike the
\* post, each request running one await at a time
NextLikes ==
  \/ CreatePost("alice", "hola")
  \/ \E u \in ChatPeers, p \in RequestIds(posts, seq.post) : StartLike(u, p)
  \/ \E u \in ChatPeers, p \in RequestIds(posts, seq.post) : StartUnlike(u, p)
  \/ \E r \in 1..MaxLikeCalls : LikeFind(r)
  \/ \E r \in 1..MaxLikeCalls : LikeSave(r)
  \/ \E r \in 1..MaxLikeCalls : LikePopulate(r)
  \/ \E r \in 1..MaxLikeCalls : UnlikeFind(r)
  \/ \E r \in 1..MaxLikeCalls : UnlikeSave(r)
  \/ \E r \in 1..MaxLikeCalls : UnlikePopulate(r)

SpecLikes == Init /\ [][NextLikes]_vars

\* the follow graph under concurrency: every user follows and unfollows every
\* user, each request running one await at a time
NextFollows ==
  \/ \E u \in UserIds, t \in UserIds : StartFollow(u, t)
  \/ \E u \in UserIds, t \in UserIds : StartUnfollow(u, t)
  \/ \E r \in 1..MaxFollowCalls : FollowFindUser(r)
  \/ \E r \in 1..MaxFollowCalls : FollowFindCurrent(r)
  \/ \E r \in 1..MaxFollowCalls : FollowAddFollowing(r)
  \/ \E r \in 1..MaxFollowCalls : FollowAddFollowers(r)
  \/ \E r \in 1..MaxFollowCalls : UnfollowFindUser(r)
  \/ \E r \in 1..MaxFollowCalls : UnfollowPullFollowing(r)
  \/ \E r \in 1..MaxFollowCalls : UnfollowPullFollowers(r)

SpecFollows == Init /\ [][NextFollows]_vars

\* the requests that create, use and remove conversations: alice, bob and carol
\* follow and unfollow (bob and carol do not follow each other), every user
\* asks for a conversation with any user (themself included), sends one text
\* message and deletes their account
Hub == {"alice"}

NextPairs ==
  \/ \E u \in UserIds, t \in UserIds : (u \in Hub \/ t \in Hub) /\ Follow(u, t)
  \/ \E u \in UserIds, t \in UserIds : (u \in Hub \/ t \in Hub) /\ Unfollow(u, t)
  \/ \E u \in UserIds, t \in UserIds : GetOrCreateConversation(u, t)
  \/ \E u \in UserIds, c \in RequestIds(conversations, seq.conv), content \in HistoryContents :
       SendMessage(u, c, content, NoImage) /\ seq'.msg <= MaxChatMsgs
  \/ \E u \in UserIds : DeleteAccount(u)

SpecPairs == Init /\ [][NextPairs]_vars

\* presence: sessions of every user connect, join and leave rooms and
\* disconnect; a user may hold several sessions at once
NextPresence ==
  \/ \E u \in UserIds : Connect(u)
  \/ \E s \in SocketIds, c \in RequestIds(conversations, seq.conv) : JoinConversation(s, c)
  \/ \E s \in SocketIds, c \in RequestIds(conversations, seq.conv) : LeaveConversation(s, c)
  \/ \E s \in SocketIds : Disconnect(s)

SpecPresence == Init /\ [][NextPresence]_vars

\* fetches after a deletion: alice and bob follow each other, converse, send a
\* text message, delete it and ask for their inbox and for the history
NextPreview ==
  \/ \E u \in ChatPeers, t \in ChatPeers : Follow(u, t)
  \/ \E u \in ChatPeers, t \in ChatPeers : GetOrCreateConversation(u, t)
  \/ \E u \in ChatPeers, c \in RequestIds(conversations, seq.conv), content \in HistoryContents :
       SendMessage(u, c, content, NoImage)
  \/ \E u \in ChatPeers, m \in RequestIds(messages, seq.msg) : DeleteMessage(u, m)
  \/ \E u \in ChatPeers : ListConversations(u)
  \/ \E u \in ChatPeers, c \in RequestIds(conversations, seq.conv) :
       ListMessages(u, c, 1, DefaultLimit)

SpecPreview == Init /\ [][NextPreview]_vars

\* sends against account deletion: alice and bob follow each other, converse
\* and send text messages one await at a time while either deletes their account
NextOrphan ==
  \/ \E u \in ChatPeers, t \in ChatPeers : Follow(u, t)
  \/ \E u \in ChatPeers, t \in ChatPeers : GetOrCreateConversation(u, t)
  \/ \E u \in ChatPeers, c \in RequestIds(conversations, seq.conv), content \in HistoryContents :
       StartSend(u, c, content, NoImage)
  \/ \E r \in 1..MaxPending : SendFindConversation(r)
  \/ \E r \in 1..MaxPending : SendFindUser1(r)
  \/ \E r \in 1..MaxPending : SendFindUser2(r)
  \/ \E r \in 1..MaxPending : SendSave(r)
  \/ \E r \in 1..MaxPending : SendPopulate(r)
  \/ \E r \in 1..MaxPending : SendUpdate(r)
  \/ \E u \in ChatPeers : DeleteAccount(u)

SpecOrphan == Init /\ [][NextOrphan]_vars

(* ------------------------------ claims --------------------------------- *)
\* A and B both exist and each is in the other's following list
MutualFollowers(a, b) ==
  /\ a \in DOMAIN users
  /\ b \in DOMAIN users
  /\ b \in users[a].following
  /\ a \in users[b].following

\* u is listed in the stored conversation c
ListedIn(c, u) ==
  c \in DOMAIN conversations /\ \E i \in DOMAIN conversations[c].participants :
                                  conversations[c].participants[i] = u

\* the participants of the stored conversation c other than u
OthersOf(c, u) ==
  {conversations[c].participants[i] : i \in DOMAIN conversations[c].participants} \ {u}

\* the body of the last send passes validation
ValidBody(r) ==
  Len(r.content) <= 1000 /\ (r.content # "" \/ r.image # NoImage)

\* C1: after every completed operation that changes a like list (like, unlike,
\* account deletion), requests run one at a time, each post's likesCount equals
\* the number of entries of its like list, also when its only liker deleted
\* their account.
C1_LikesCountEqualsLikes ==
  \A p \in DOMAIN posts : posts[p].likesCount = Len(posts[p].likes)

\* C2: in every reachable state the gate is true exactly when both users exist
\* and each follows the other, so it is symmetric and a one-directional follow
\* yields false; GET /can-chat answers with the gate's value.
C2_GateIsMutualFollow ==
  /\ \A a \in UserIds, b \in UserIds :
       /\ checkMutualFollow(a, b) = MutualFollowers(a, b)
       /\ checkMutualFollow(a, b) = checkMutualFollow(b, a)
       /\ (/\ a \in DOMAIN users
           /\ b \in DOMAIN users
           /\ b \in users[a].following
           /\ a \notin users[b].following)
            => (~checkMutualFollow(a, b) /\ ~checkMutualFollow(b, a))
  /\ (res.op = "canChat" /\ res.status = 200)
       => res.canChat = MutualFollowers(res.user, res.target)

\* the gate was asked about a one-directional follow and answered false
C2_Witness ==
  /\ res.op = "canChat"
  /\ res.status = 200
  /\ res.target \in DOMAIN users
  /\ res.user \in users[res.target].following
  /\ res.target \notin users[res.user].following
  /\ ~res.canChat

\* C3: with get-or-create requests run one at a time, no two stored
\* conversations have the same unordered pair of participants, whoever asked
\* and in whatever order the participants are stored.
C3_OneConversationPerPair ==
  \A c1 \in DOMAIN conversations, c2 \in DOMAIN conversations :
    c1 # c2 => Range(conversations[c1].participants)
                 # Range(conversations[c2].participants)

\* the user stored second asked for the conversation and got the stored one,
\* although a new one could still have been created
C3_Witness ==
  /\ res.op = "getOrCreate"
  /\ res.status = 200
  /\ res.conv \in DOMAIN conversations
  /\ conversations[res.conv].participants = <<res.target, res.user>>
  /\ seq.conv < MaxConvs

\* C4: a get-or-create request between two existing users who are not mutual
\* followers (a user addressing themself included) is answered 403 and leaves
\* the stored conversations unchanged.
C4_NotMutualNoConversation ==
  [][(/\ res'.op = "getOrCreate"
      /\ res'.target \in DOMAIN users
      /\ ~MutualFollowers(res'.user, res'.target))
       => (res'.status = 403 /\ conversations' = conversations)]_vars

\* a user who follows the target without being followed back was refused
C4_Witness ==
  /\ res.op = "getOrCreate"
  /\ res.status = 403
  /\ res.target \in DOMAIN users
  /\ res.target \in users[res.user].following
  /\ conversations = <<>>

\* C5: a send with neither content nor image, or with content longer than 1000
\* characters, is answered 400, stores no message, leaves the conversations
\* unchanged and emits nothing; a send with content of exactly 1000 characters
\* by a participant who passes the gate succeeds and stores the message.
C5_SendValidation ==
  [][res'.op = "send" =>
       /\ ((res'.content = "" /\ res'.image = NoImage) \/ Len(res'.content) > 1000)
            => /\ res'.status = 400
               /\ messages' = messages
               /\ conversations' = conversations
               /\ emitted' = <<>>
       /\ (/\ Len(res'.content) = 1000
           /\ ListedIn(res'.conv, res'.user)
           /\ \A o \in OthersOf(res'.conv, res'.user) : MutualFollowers(res'.user, o))
            => /\ res'.status = 201
               /\ res'.msg \in DOMAIN messages' \ DOMAIN messages
               /\ messages'[res'.msg].content = res'.content]_vars

\* a message of exactly 1000 characters was sent and stored
C5_Witness ==
  /\ res.op = "send"
  /\ res.status = 201
  /\ Len(res.content) = 1000
  /\ res.image = NoImage
  /\ res.msg \in DOMAIN messages
  /\ Len(messages[res.msg].content) = 1000

\* the send changed no stored message and no conversation and emitted nothing
SendChangedNothing ==
  /\ messages' = messages
  /\ conversations' = conversations
  /\ emitted' = <<>>

\* the sender of the last send is no participant of the named, stored
\* conversation, or the gate between the sender and the other participant is false
NotAllowedToSend(r) ==
  /\ r.conv \in DOMAIN conversations
  /\ \/ ~ListedIn(r.conv, r.user)
     \/ \E o \in OthersOf(r.conv, r.user) : ~MutualFollowers(r.user, o)

\* C6 as stated: every send by a non-participant, or with the gate false, is
\* answered 403 and changes nothing.
C6_Original ==
  [][(res'.op = "send" /\ NotAllowedToSend(res'))
       => (res'.status = 403 /\ SendChangedNothing)]_vars

\* C6 amended: such a send is refused and changes nothing; it is answered 403
\* when its body passes validation and 400 when it does not.
C6_RefusedWhenNotAllowed ==
  [][(res'.op = "send" /\ NotAllowedToSend(res'))
       => /\ res'.status = (IF ValidBody(res') THEN 403 ELSE 400)
          /\ SendChangedNothing]_vars

\* a valid send by a user outside an existing conversation was answered 403
C6_Witness ==
  /\ res.op = "send"
  /\ res.status = 403
  /\ ValidBody(res)
  /\ res.conv \in DOMAIN conversations
  /\ ~ListedIn(res.conv, res.user)

\* C7: while the participants of a conversation are not mutual followers (from
\* an unfollow by either until the follow is restored) every send in it by
\* either participant is refused and stores nothing; the unfollow itself leaves
\* the stored messages and every listMessages result as they were.
C7_UnfollowBlocksSendsKeepsHistory ==
  [][/\ (/\ res'.op = "send"
         /\ ListedIn(res'.conv, res'.user)
         /\ \E o \in OthersOf(res'.conv, res'.user) : ~MutualFollowers(res'.user, o))
          => (res'.status \in {400, 403} /\ messages' = messages)
     /\ res'.op = "unfollow"
          => /\ messages' = messages
             /\ \A c \in ConvIds, u \in UserIds, page \in Pages, limit \in Limits :
                  listMessages(c, u, page, limit)' = listMessages(c, u, page, limit)]_vars

\* after an unfollow a participant's valid send was refused while the earlier
\* message of the conversation is still listed to both participants
C7_Witness ==
  /\ res.op = "send"
  /\ res.status = 403
  /\ ValidBody(res)
  /\ ListedIn(res.conv, res.user)
  /\ \E o \in OthersOf(res.conv, res.user) :
       /\ ~MutualFollowers(res.user, o)
       /\ \A u \in {res.user, o} :
            \E body \in listMessages(res.conv, u, 1, DefaultLimit) : Len(body) = 1

\* C8: a successful send stores exactly one new message in the conversation,
\* points lastMessage at it and refreshes lastActivity, emits exactly one
\* new_message to the sockets joined to the conversation's room at that time,
\* and the other participant's inbox then shows the sender with that message
\* as preview.
C8_SuccessfulSend ==
  [][(res'.op = "send" /\ res'.status = 201) =>
       LET m == res'.msg
           c == res'.conv
       IN /\ m \notin DOMAIN messages
          /\ DOMAIN messages' = DOMAIN messages \cup {m}
          /\ \A k \in DOMAIN messages : messages'[k] = messages[k]
          /\ messages'[m].conversation = c
          /\ messages'[m].sender = res'.user
          /\ messages'[m].content = res'.content
          /\ messages'[m].image = res'.image
          /\ ~messages'[m].isDeleted
          /\ conversations'[c].lastMessage = m
          /\ conversations'[c].lastActivity = now'
          /\ conversations'[c].lastActivity >= conversations[c].lastActivity
          /\ conversations'[c].lastActivity >= messages'[m].createdAt
          /\ Len(emitted') = 1
          /\ emitted'[1].event = "new_message"
          /\ emitted'[1].room = c
          /\ emitted'[1].to = {s \in DOMAIN sockets : c \in sockets[s].rooms}
          /\ emitted'[1].payload.id = m
          /\ emitted'[1].payload.content = res'.content
          /\ emitted'[1].payload.sender = res'.user
          /\ \A o \in OthersOf(c, res'.user) :
               /\ listConversations(o)' # {}
               /\ \A inbox \in listConversations(o)' :
                    \E i \in DOMAIN inbox :
                      /\ inbox[i].id = c
                      /\ inbox[i].participant = res'.user
                      /\ inbox[i].lastMessage.content = res'.content
                      /\ inbox[i].lastMessage.createdAt = messages'[m].createdAt]_vars

\* a text message was sent while a socket was joined to the room and received it
C8_Witness ==
  /\ res.op = "send"
  /\ res.status = 201
  /\ res.content = Str1000
  /\ Len(emitted) = 1
  /\ emitted[1].to # {}
  /\ conversations[res.conv].lastMessage = res.msg

\* C9: a delete-message request by a user other than the message's sender is
\* answered 403 and changes nothing: no field of any message changes and no
\* message_deleted is emitted.
C9_OnlySenderDeletes ==
  [][(/\ res'.op = "deleteMessage"
      /\ res'.msg \in DOMAIN messages
      /\ messages[res'.msg].sender # res'.user)
       => /\ res'.status = 403
          /\ messages' = messages
          /\ emitted' = <<>>]_vars

\* the other participant of the conversation tried to delete the message
C9_Witness ==
  /\ res.op = "deleteMessage"
  /\ res.status = 403
  /\ res.msg \in DOMAIN messages
  /\ ListedIn(messages[res.msg].conversation, res.user)
  /\ ~messages[res.msg].isDeleted

\* the message m is in no answer of listMessages, for any requester and page
NeverListed(m) ==
  \A c \in ConvIds, u \in UserIds, page \in Pages, limit \in Limits :
    \A body \in listMessages(c, u, page, limit) :
      \A i \in DOMAIN body : body[i].id # m

\* C10: a successful delete by the sender keeps the record, with isDeleted
\* true, deletedAt set and the content retained, and emits one message_deleted
\* carrying only the message id to the conversation's room; a deleted message
\* is in no listMessages answer for any page and requester, and it stays
\* deleted with its content for as long as it is stored.
C10_SoftDelete ==
  [][/\ (res'.op = "deleteMessage" /\ res'.status = 200)
          => LET m == res'.msg
             IN /\ m \in DOMAIN messages'
                /\ messages'[m].isDeleted
                /\ messages'[m].deletedAt = now'
                /\ messages'[m].deletedAt # NoDate
                /\ messages'[m].content = messages[m].content
                /\ messages'[m].sender = res'.user
                /\ emitted' = <<[event |-> "message_deleted",
                                 room |-> messages[m].conversation,
                                 payload |-> [messageId |-> m],
                                 to |-> {s \in DOMAIN sockets :
                                           messages[m].conversation \in sockets[s].rooms}]>>
     /\ (messages' # messages \/ conversations' # conversations)
          => \A m \in DOMAIN messages' :
               messages'[m].isDeleted
                 => (messages'[m].deletedAt # NoDate /\ NeverListed(m)')
     /\ \A m \in DOMAIN messages :
          (messages[m].isDeleted /\ m \in DOMAIN messages')
            => (messages'[m].isDeleted /\ messages'[m].content = messages[m].content)]_vars

\* the sender deleted a text message while a socket was joined to the room
C10_Witness ==
  /\ res.op = "deleteMessage"
  /\ res.status = 200
  /\ messages[res.msg].isDeleted
  /\ messages[res.msg].content = Str1000
  /\ Len(emitted) = 1
  /\ emitted[1].to # {}

\* the ids of the messages in a listMessages answer
IdsOf(body) == {body[i].id : i \in DOMAIN body}

\* the stored messages of conversation c that are not deleted
LiveMessages(c) ==
  {m \in DOMAIN messages : messages[m].conversation = c /\ ~messages[m].isDeleted}

Max(a, b) == IF a >= b THEN a ELSE b

\* body is the slice of ranks (p-1)*n+1 .. p*n from newest of the non-deleted
\* messages of c, oldest first (messages of equal age may take either rank)
IsPage(body, c, p, n) ==
  /\ \A i \in DOMAIN body : body[i].id \in LiveMessages(c)
  /\ \A i, j \in DOMAIN body : i # j => body[i].id # body[j].id
  /\ \A i, j \in DOMAIN body : i < j => body[i].createdAt <= body[j].createdAt
  /\ \A i \in DOMAIN body : body[i].createdAt = messages[body[i].id].createdAt
  /\ Len(body) = Min(n, Max(0, Cardinality(LiveMessages(c)) - (p - 1) * n))
  /\ \A i \in DOMAIN body :
       LET m == body[i].id
       IN /\ Cardinality({x \in LiveMessages(c) :
                            messages[x].createdAt > messages[m].createdAt}) < p * n
          /\ Cardinality({x \in LiveMessages(c) :
                            x # m /\ messages[x].createdAt >= messages[m].createdAt})
               >= (p - 1) * n

\* the last two requests were listMessages of the same conversation with the
\* same page size, both answered 200
TwoPagesInARow ==
  /\ res.op = "listMessages"
  /\ res.status = 200
  /\ res'.op = "listMessages"
  /\ res'.status = 200
  /\ res'.conv = res.conv
  /\ res'.limit = res.limit

\* every answered page is the rank slice it was asked for
C11_EachPageIsItsSlice ==
  [][(res'.op = "listMessages" /\ res'.status = 200)
       => IsPage(res'.body, res'.conv, res'.page, res'.limit)]_vars

\* C11: for a participant, listMessages with page p and page size n returns the
\* non-deleted messages ranked (p-1)*n+1 .. p*n from newest, oldest first (so
\* page 1 of size 50 is the 50 most recent in ascending order), and two pages
\* asked with no send or delete in between are disjoint and, when they are all
\* the pages, together hold every non-deleted message.
C11_PagesPartitionHistory ==
  [][(res'.op = "listMessages" /\ res'.status = 200)
       => /\ IsPage(res'.body, res'.conv, res'.page, res'.limit)
          /\ (TwoPagesInARow /\ res'.page # res.page)
               => IdsOf(res'.body) \cap IdsOf(res.body) = {}
          /\ (/\ TwoPagesInARow
              /\ {res.page, res'.page} = {1, 2}
              /\ Cardinality(LiveMessages(res'.conv)) <= 2 * res'.limit)
               => IdsOf(res'.body) \cup IdsOf(res.body) = LiveMessages(res'.conv)]_vars

\* C12: listMessages asked by a user who is not a participant of the stored
\* conversation is answered 403 and returns no message, whatever the follow
\* relations of the requester are.
C12_NonParticipantRefused ==
  [][(/\ res'.op = "listMessages"
      /\ res'.conv \in DOMAIN conversations
      /\ ~ListedIn(res'.conv, res'.user))
       => (res'.status = 403 /\ res'.body = <<>>)]_vars

\* a mutual follower of both participants asked for the history of their
\* conversation, which holds a message, and was refused
C12_Witness ==
  /\ res.op = "listMessages"
  /\ res.status = 403
  /\ res.body = <<>>
  /\ res.conv \in DOMAIN conversations
  /\ LiveMessages(res.conv) # {}
  /\ \A i \in DOMAIN conversations[res.conv].participants :
       MutualFollowers(res.user, conversations[res.conv].participants[i])

\* C13: listConversations(U) returns exactly the conversations whose participant
\* list contains U, each once, in non-increasing order of lastActivity, each
\* entry carrying the participant other than U and the preview of the
\* conversation's lastMessage, or null when it has no lastMessage.
C13_InboxListing ==
  res.op = "listConversations" =>
    LET body == res.body
        u == res.user
    IN /\ {body[i].id : i \in DOMAIN body} = {c \in DOMAIN conversations : ListedIn(c, u)}
       /\ \A i, j \in DOMAIN body : i # j => body[i].id # body[j].id
       /\ \A i, j \in DOMAIN body : i < j => body[i].lastActivity >= body[j].lastActivity
       /\ \A i \in DOMAIN body :
            LET conv == conversations[body[i].id]
            IN /\ body[i].lastActivity = conv.lastActivity
               /\ body[i].participant # u
               /\ body[i].participant \in OthersOf(body[i].id, u)
               /\ conv.lastMessage = NoId => body[i].lastMessage = NoPreview
               /\ conv.lastMessage # NoId =>
                    /\ conv.lastMessage \in DOMAIN messages
                    /\ body[i].lastMessage.content = messages[conv.lastMessage].content
                    /\ body[i].lastMessage.messageType = messages[conv.lastMessage].messageType
                    /\ body[i].lastMessage.createdAt = messages[conv.lastMessage].createdAt

\* a user stored first in one conversation and second in another asked for the
\* inbox: the more recently active conversation, with a preview, comes before
\* the one without messages
C13_Witness ==
  /\ res.op = "listConversations"
  /\ Len(res.body) = 2
  /\ res.body[1].lastActivity > res.body[2].lastActivity
  /\ res.body[1].lastMessage.content = "hi"
  /\ res.body[2].lastMessage = NoPreview
  /\ \E i, j \in DOMAIN res.body :
       /\ conversations[res.body[i].id].participants[1] = res.user
       /\ conversations[res.body[j].id].participants[2] = res.user

\* C14: a like request by a user who is already in the post's like list is
\* answered 400 ('already liked'), leaves the like list and likesCount
\* unchanged and emits no post_liked event.
C14_LikeTwiceRefused ==
  [][(/\ res'.op = "like"
      /\ res'.post \in DOMAIN posts
      /\ \E i \in DOMAIN posts[res'.post].likes : posts[res'.post].likes[i] = res'.user)
       => /\ res'.status = 400
          /\ posts' = posts
          /\ emitted' = <<>>]_vars

\* a user who likes the post liked it again and was refused; the post still
\* holds that one like
C14_Witness ==
  /\ res.op = "like"
  /\ res.status = 400
  /\ res.post \in DOMAIN posts
  /\ posts[res.post].likes = <<res.user>>
  /\ posts[res.post].likesCount = 1
  /\ emitted = <<>>

\* C15: likesCount of every post is at least 0 in every reachable state; an
\* unlike request by a user who is not in the post's like list is answered 400
\* ('not liked') and changes neither the like list nor likesCount.
C15_UnlikeNeverLiked ==
  [][/\ \A p \in DOMAIN posts' : posts'[p].likesCount >= 0
     /\ (/\ res'.op = "unlike"
         /\ res'.post \in DOMAIN posts
         /\ \A i \in DOMAIN posts[res'.post].likes : posts[res'.post].likes[i] # res'.user)
          => /\ res'.status = 400
             /\ posts' = posts
             /\ emitted' = <<>>]_vars

\* a user unliked a post that another user likes and they do not, and was refused
C15_Witness ==
  /\ res.op = "unlike"
  /\ res.status = 400
  /\ res.post \in DOMAIN posts
  /\ Len(posts[res.post].likes) = 1
  /\ posts[res.post].likes[1] # res.user
  /\ posts[res.post].likesCount = 1

\* C16: account deletion of user U removes, for every conversation of U with
\* exactly two participants, the conversation record and all of its messages
\* (from both senders); for a conversation with more than two participants it
\* only removes U from the participant list and keeps the conversation and the
\* other senders' messages.
C16_ConversationCascade ==
  [][res'.op = "deleteAccount" =>
       \A c \in DOMAIN conversations :
         ListedIn(c, res'.user) =>
           /\ Len(conversations[c].participants) = 2 =>
                /\ c \notin DOMAIN conversations'
                /\ \A m \in DOMAIN messages :
                     messages[m].conversation = c => m \notin DOMAIN messages'
           /\ Len(conversations[c].participants) > 2 =>
                /\ c \in DOMAIN conversations'
                /\ conversations'[c].participants =
                     SelectSeq(conversations[c].participants, LAMBDA q : q # res'.user)
                /\ conversations'[c].lastMessage = conversations[c].lastMessage
                /\ conversations'[c].lastActivity = conversations[c].lastActivity
                /\ \A m \in DOMAIN messages :
                     (messages[m].conversation = c /\ messages[m].sender # res'.user)
                       => (m \in DOMAIN messages' /\ messages'[m] = messages[m])]_vars

\* one account deletion removed the pair conversation with a message of the
\* other participant and left the larger conversation, without the deleted
\* user, with the message another participant sent
C16_Witness ==
  /\ res.op = "deleteAccount"
  /\ DOMAIN conversations = {2}
  /\ conversations[2].participants \in {<<"bob", "carol">>, <<"alice", "carol">>}
  /\ seq.msg = 2
  /\ \E m \in DOMAIN messages :
       /\ DOMAIN messages = {m}
       /\ messages[m].conversation = 2
       /\ messages[m].sender \in Range(conversations[2].participants)
       /\ messages[m].content = "hi"

\* C17: after an account deletion of user U that runs with no other request
\* interleaved, U's user record is gone and no user's followers or following
\* list contains U, no post is authored by U, no post's like list contains U
\* and no conversation lists U as participant.
C17_NoReferenceLeft ==
  [][res'.op = "deleteAccount" =>
       LET U == res'.user
       IN /\ U \notin DOMAIN users'
          /\ \A w \in DOMAIN users' :
               U \notin users'[w].following /\ U \notin users'[w].followers
          /\ \A p \in DOMAIN posts' :
               /\ posts'[p].author # U
               /\ \A i \in DOMAIN posts'[p].likes : posts'[p].likes[i] # U
          /\ \A c \in DOMAIN conversations' :
               \A i \in DOMAIN conversations'[c].participants :
                 conversations'[c].participants[i] # U]_vars

\* a user who had a conversation with a message (so followed and was followed)
\* and whose like was the only one on the other user's post deleted the account
C17_Witness ==
  /\ res.op = "deleteAccount"
  /\ res.user \notin DOMAIN users
  /\ seq.conv = 1
  /\ seq.msg = 1
  /\ conversations = <<>>
  /\ messages = <<>>
  /\ \E p \in DOMAIN posts :
       /\ posts[p].author \in DOMAIN users
       /\ posts[p].likes = <<>>
       /\ posts[p].likesCount = 1
  /\ \A w \in DOMAIN users : users[w].following = {} /\ users[w].followers = {}

\* C18: every emitted event is delivered at most once to each session and only
\* to sessions that are connected (and, for conversation-scoped events, joined
\* to the channel) at emit time; connecting or joining delivers no earlier
\* event, and an emit to a channel with no subscribers changes no state and
\* raises no error.
C18_DeliveryAtEmitTime ==
  [][/\ \A i \in DOMAIN emitted' :
          /\ emitted'[i].to \subseteq DOMAIN sockets
          /\ emitted'[i].room # NoId =>
               emitted'[i].to \subseteq
                 {s \in DOMAIN sockets : emitted'[i].room \in sockets[s].rooms}
          /\ \A j \in DOMAIN emitted' : j # i => emitted'[j] # emitted'[i]
     /\ res'.op \in {"connect", "join_conversation"} => emitted' = <<>>
     /\ (\E i \in DOMAIN emitted' : emitted'[i].to = {}) =>
          /\ sockets' = sockets
          /\ connectedUsers' = connectedUsers
          /\ res'.op = "send" => res'.status = 201
          /\ res'.op = "deleteMessage" => res'.status = 200
          /\ res'.op = "createPost" => res'.status = 201]_vars

\* a message was sent while one session was joined to the room and another was
\* connected without having joined: only the first received it
C18_Witness ==
  /\ res.op = "send"
  /\ res.status = 201
  /\ Len(emitted) = 1
  /\ \E s1, s2 \in DOMAIN sockets :
       /\ s1 # s2
       /\ emitted[1].to = {s1}
       /\ res.conv \in sockets[s1].rooms
       /\ res.conv \notin sockets[s2].rooms

\* C19 as stated: a message-history or send request that names a conversation
\* which does not exist is answered 404.
C19_Original ==
  [][(res'.op \in {"listMessages", "send"} /\ res'.conv \notin DOMAIN conversations)
       => res'.status = 404]_vars

\* C19 amended: such a request is answered 403, as a request by a
\* non-participant is; a send whose body fails validation is answered 400
\* before the conversation is looked up. Nothing is stored or emitted.
C19_UnknownConversationRefused ==
  [][(res'.op \in {"listMessages", "send"} /\ res'.conv \notin DOMAIN conversations)
       => /\ res'.op = "listMessages" => res'.status = 403
          /\ res'.op = "send" => res'.status = (IF ValidBody(res') THEN 403 ELSE 400)
          /\ res'.body = <<>>
          /\ messages' = messages
          /\ emitted' = <<>>]_vars

\* a participant of the stored conversation asked for the history of a
\* conversation that does not exist and was answered 403
C19_Witness ==
  /\ res.op = "listMessages"
  /\ res.status = 403
  /\ res.conv \notin DOMAIN conversations
  /\ \E c \in DOMAIN conversations : ListedIn(c, res.user)

\* C20: when two get-or-create requests for the same pair of mutually-following
\* users (one from each direction, or two from the same side) interleave so
\* that both lookups run before either save, two conversation records for the
\* same unordered pair exist afterwards.
C20_RaceCreatesDuplicates ==
  \A r1, r2 \in DOMAIN pending :
    (/\ r1 # r2
     /\ {pending[r1].user, pending[r1].target} = {pending[r2].user, pending[r2].target}
     /\ pending[r1].pc = "done"
     /\ pending[r2].pc = "done"
     /\ pending[r1].created
     /\ pending[r2].created)
      => /\ pending[r1].conv # pending[r2].conv
         /\ \A r \in {r1, r2} :
              /\ pending[r].conv \in DOMAIN conversations
              /\ Range(conversations[pending[r].conv].participants)
                   = {pending[r1].user, pending[r1].target}

\* alice asked for the conversation with bob while bob asked for the one with
\* alice; both saved a new record
C20_Witness ==
  /\ Len(pending) = 2
  /\ pending[1].user = pending[2].target
  /\ pending[2].user = pending[1].target
  /\ pending[1].user # pending[2].user
  /\ pending[1].pc = "done"
  /\ pending[2].pc = "done"
  /\ pending[1].created
  /\ pending[2].created
  /\ Cardinality(DOMAIN conversations) = 2

\* no send request is between its arrival and its response
NoSendInFlight ==
  \A r \in DOMAIN pending : pending[r].op = "send" => pending[r].pc = "done"

\* the stored messages of conversation c
MessagesOf(c) == {m \in DOMAIN messages : messages[m].conversation = c}

\* C21: whenever no send is in flight, each conversation's lastMessage refers to
\* the most recently stored message of that conversation (a stored message of
\* the conversation than which none was created later, none when it has no
\* message), also when two sends to it interleave between their message insert
\* and their conversation update.
C21_LastMessageIsMostRecent ==
  NoSendInFlight =>
    \A c \in DOMAIN conversations :
      IF MessagesOf(c) = {}
      THEN conversations[c].lastMessage = NoId
      ELSE /\ conversations[c].lastMessage \in MessagesOf(c)
           /\ \A m \in MessagesOf(c) :
                messages[m].createdAt
                  <= messages[conversations[c].lastMessage].createdAt

\* the send r has stored its message and not yet updated its conversation
BetweenInsertAndUpdate(r) ==
  /\ pending[r].op = "send"
  /\ pending[r].pc \in {"sendPopulate", "sendUpdate"}

\* the send r was answered 500 after it had stored its message
FailedAfterInsert(r) ==
  /\ pending[r].op = "send"
  /\ pending[r].pc = "done"
  /\ pending[r].status = 500
  /\ pending[r].msg # NoId

\* C22: if a send fails after its message insert and before its conversation
\* update, the message is stored and returned by listMessages, the
\* conversation's lastMessage and lastActivity are unchanged, no new_message is
\* emitted and the caller gets a 500; the next successful send in that
\* conversation sets lastMessage and lastActivity from its own message, and
\* nothing retries the failed update (an answered request takes no further
\* step, and no conversation ever points at the message of a failed send).
C22_FailedSendLeavesConversation ==
  [][\A r \in DOMAIN pending :
       /\ (BetweenInsertAndUpdate(r) /\ pending'[r].status = 500)
            => LET call == pending[r]
               IN /\ pending'[r].pc = "done"
                  /\ messages' = messages
                  /\ call.msg \in DOMAIN messages
                  /\ messages[call.msg].conversation = call.conv
                  /\ ~messages[call.msg].isDeleted
                  /\ listMessages(call.conv, call.user, 1, DefaultLimit)' # {}
                  /\ \A body \in listMessages(call.conv, call.user, 1, DefaultLimit)' :
                       \E i \in DOMAIN body :
                         body[i].id = call.msg /\ body[i].content = call.content
                  /\ conversations' = conversations
                  /\ emitted' = <<>>
       /\ (BetweenInsertAndUpdate(r) /\ pending'[r].status = 201)
            => LET call == pending[r]
               IN /\ conversations'[call.conv].lastMessage = call.msg
                  /\ conversations'[call.conv].lastActivity = now'
                  /\ conversations'[call.conv].lastActivity >= call.createdAt
       /\ pending[r].pc = "done" => pending'[r] = pending[r]
       /\ FailedAfterInsert(r)'
            => \A c \in DOMAIN conversations' :
                 conversations'[c].lastMessage # pending'[r].msg]_vars

\* a send failed after storing its message; a later send to the same
\* conversation succeeded and the conversation points at the later message
\* while both messages are listed
C22_Witness ==
  \E r1, r2 \in DOMAIN pending :
    /\ FailedAfterInsert(r1)
    /\ pending[r2].op = "send"
    /\ pending[r2].pc = "done"
    /\ pending[r2].status = 201
    /\ pending[r2].conv = pending[r1].conv
    /\ pending[r2].msg > pending[r1].msg
    /\ conversations[pending[r1].conv].lastMessage = pending[r2].msg
    /\ \E body \in listMessages(pending[r1].conv, pending[r1].user, 1, DefaultLimit) :
         IdsOf(body) = {pending[r1].msg, pending[r2].msg}

\* C23: in every reachable state a post's like list contains each user at most
\* once, including when two like requests by the same user on the same post
\* interleave between the hasUserLiked check and the save.
C23_NoDuplicateLikes ==
  \A p \in DOMAIN posts :
    \A i, j \in DOMAIN posts[p].likes :
      i # j => posts[p].likes[i] # posts[p].likes[j]

\* no like or unlike request is between its arrival and its response
NoLikeInFlight ==
  \A r \in DOMAIN pending :
    pending[r].op \in {"like", "unlike"} => pending[r].pc = "done"

\* C24: whenever no like or unlike request is in flight, a post's likesCount
\* equals the length of its like list, also when like or unlike requests by
\* different users on the same post interleave between loading the post and
\* saving it (stated for the posts whose like list holds each user once).
C24_LikesCountAfterRaces ==
  NoLikeInFlight =>
    \A p \in DOMAIN posts :
      (\A i, j \in DOMAIN posts[p].likes : i # j => posts[p].likes[i] # posts[p].likes[j])
        => posts[p].likesCount = Len(posts[p].likes)

\* no follow, unfollow or account-deletion request is between its arrival and
\* its response
NoFollowInFlight ==
  \A r \in DOMAIN pending :
    pending[r].op \in {"follow", "unfollow", "deleteAccount"} => pending[r].pc = "done"

\* C25: whenever no follow, unfollow or account-deletion request is in flight,
\* the two follow lists mirror each other (B is in A's following list exactly
\* when A is in B's followers list), for every interleaving of follow and
\* unfollow requests on the same pair, and no user is ever in their own
\* following list.
C25_FollowListsMirror ==
  /\ NoFollowInFlight =>
       \A a \in DOMAIN users, b \in DOMAIN users :
         (b \in users[a].following) <=> (a \in users[b].followers)
  /\ \A a \in DOMAIN users : a \notin users[a].following

\* C26: every stored conversation has exactly two distinct participants in
\* every reachable state, for every sequence of get-or-create, send, follow,
\* unfollow and account-deletion requests; the branch of account deletion that
\* removes one participant from a larger conversation is never taken: every
\* conversation of the deleted user is removed as a whole.
C26_AlwaysPairs ==
  [][/\ \A c \in DOMAIN conversations' :
          /\ Len(conversations'[c].participants) = 2
          /\ conversations'[c].participants[1] # conversations'[c].participants[2]
     /\ res'.op = "deleteAccount" =>
          /\ \A c \in DOMAIN conversations :
               ListedIn(c, res'.user) =>
                 (Len(conversations[c].participants) = 2 /\ c \notin DOMAIN conversations')
          /\ \A c \in DOMAIN conversations' : conversations'[c] = conversations[c]]_vars

\* a user with two conversations, one of them holding a message, deleted the
\* account: both conversations are gone and no conversation was cut down
C26_Witness ==
  /\ res.op = "deleteAccount"
  /\ seq.conv = 2
  /\ seq.msg = 1
  /\ conversations = <<>>
  /\ messages = <<>>
  /\ Cardinality(DOMAIN users) = 2

\* the connected sessions of user u
SessionsOf(u) == {s \in DOMAIN sockets : sockets[s].user = u}

\* C27: for every sequence of connects and disconnects, including several
\* simultaneous sessions of the same user, connectedUsers has an entry for user
\* U exactly when at least one session of U is connected, and that entry names
\* a session that is still connected.
C27_PresenceMatchesSessions ==
  \A u \in UserIds :
    /\ (u \in DOMAIN connectedUsers) <=> (SessionsOf(u) # {})
    /\ u \in DOMAIN connectedUsers => connectedUsers[u] \in SessionsOf(u)

\* C28: a session receives new_message and message_deleted events only for
\* conversations in which its authenticated user is a participant: no sequence
\* of join_conversation requests lets a non-participant's session receive
\* another pair's messages.
C28_OnlyParticipantsReceive ==
  \A i \in DOMAIN emitted :
    emitted[i].event \in {"new_message", "message_deleted"} =>
      \A s \in emitted[i].to :
        /\ s \in DOMAIN sockets
        /\ ListedIn(emitted[i].room, sockets[s].user)

\* C29: after a message has been soft-deleted, no later fetch returns its
\* content: no listMessages answer holds a deleted message, and the lastMessage
\* preview in listConversations never carries the content of a message whose
\* isDeleted flag is true.
C29_DeletedContentNotFetched ==
  /\ (res.op = "listMessages" /\ res.status = 200) =>
       \A i \in DOMAIN res.body : ~messages[res.body[i].id].isDeleted
  /\ res.op = "listConversations" =>
       \A i \in DOMAIN res.body :
         LET m == conversations[res.body[i].id].lastMessage
         IN (m \in DOMAIN messages /\ messages[m].isDeleted)
              => res.body[i].lastMessage.content # messages[m].content

\* no request is between its arrival and its response
NoRequestInFlight == \A r \in DOMAIN pending : pending[r].pc = "done"

\* C30: whenever no request is in flight, every stored message refers to a
\* conversation that exists and its sender is a participant of that
\* conversation, also when a send by one participant interleaves with the
\* account deletion of the other participant (stated for the messages whose
\* sender still has an account, so that the deleted account is the other one).
C30_NoOrphanMessage ==
  NoRequestInFlight =>
    \A m \in DOMAIN messages :
      messages[m].sender \in DOMAIN users =>
        /\ messages[m].conversation \in DOMAIN conversations
        /\ ListedIn(messages[m].conversation, messages[m].sender)

====
